---- MODULE Spec2Model ----
(***************************************************************************)
(* Temporal market window resolver of the Polymarket price logger          *)
(* (src/cotationsLogger/polymarket_logger.js): parseSlug,                  *)
(* generateExpectedSlug and isActiveMarket, with the JavaScript Date and   *)
(* Intl.DateTimeFormat('America/New_York') arithmetic they rest on.        *)
(*                                                                         *)
(* Instants are whole seconds since the Unix epoch.  A slug is a record    *)
(* holding the fields its text is made of; the text of a slug is an        *)
(* injective function of these fields, so equal records are equal strings. *)
(***************************************************************************)
EXTENDS Integers, FiniteSets, Sequences, TLC

VARIABLES
    hourCycle,   \* how the JavaScript engine prints the midnight hour under hour12:false: "h23" (00) or "h24" (24)
    localTZ,     \* the time zone of the process, read by new Date(y, m, d, h, ...)
    asset,       \* the asset argument
    timeframe,   \* the cadence argument
    now,         \* the instant sampled by the caller (and the wall clock of the pass)
    pc,          \* position of the resolution pass
    slug,        \* result of generateExpectedSlug(asset, timeframe, now)
    parsed,      \* result of parseSlug(slug, asset)
    active,      \* result of isActiveMarket(parsed, asset, timeframe, now)
    later,       \* the instant of a later tick
    laterSlug,   \* result of generateExpectedSlug(asset, timeframe, later)
    accepted,    \* window starts whose descriptor isActiveMarket accepts at now
    decoded,     \* window starts whose epoch slug, once decoded, isActiveMarket accepts at now
    reparsed,    \* result of parseSlug(slug, asset) at the later tick
    activeLater, \* result of isActiveMarket(reparsed, asset, timeframe, later)
    clock,       \* the wall clock of the logger process
    MARKETS,     \* MARKETS[asset][tf]: the cached market of each slot
    BUFFERS,     \* BUFFERS[asset]: the rows not yet written
    passes,      \* the collectData calls in progress: position and locals of each
    refreshes,   \* the refreshMarkets calls in progress, by caller: position and locals
    main,        \* position and locals of main()
    spotFailures, \* getSpotPrice calls that came back without a price
    switches,    \* requests by slug answered otherwise than the request before them in the same refreshMarkets call
    ACTIVE_BOUGIES, \* ACTIVE_BOUGIES[asset][tf]: the start of the market last cached for the slot
    CSV          \* CSV[asset]: the rows of the file data/<asset>.csv

\* The variables of a resolution pass and of a catalogue scan.
resolverVars == <<hourCycle, localTZ, asset, timeframe, now, pc, slug, parsed, active,
                  later, laterSlug, accepted, decoded, reparsed, activeLater>>

\* The variables of the running logger.
loggerVars == <<clock, MARKETS, BUFFERS, passes, refreshes, main, spotFailures,
                switches, ACTIVE_BOUGIES, CSV>>

vars == <<resolverVars, loggerVars>>

----------------------------------------------------------------------------
(* Program constants *)

ASSETS == {"BTC", "ETH", "SOL"}

TIMEFRAMES == {"m15", "h1", "daily"}

MONTHS == <<"january", "february", "march", "april", "may", "june",
            "july", "august", "september", "october", "november", "december">>

shortName(a) ==
    CASE a = "BTC" -> "btc" [] a = "ETH" -> "eth" [] a = "SOL" -> "sol" [] OTHER -> "xrp"

fullNames(a) ==
    CASE a = "BTC" -> "bitcoin" [] a = "ETH" -> "ethereum" [] a = "SOL" -> "solana" [] OTHER -> "xrp"

----------------------------------------------------------------------------
(* JavaScript Date: the proleptic Gregorian calendar over epoch seconds *)

\* The time value of an Invalid Date (NaN); every valid instant of the model is >= 0.
InvalidDate == 0 - 1

Hour == 60 * 60

Day == 24 * Hour

IsLeap(y) == (y % 4 = 0 /\ y % 100 # 0) \/ y % 400 = 0

DaysInMonth(y, m) ==
    IF m = 2 THEN (IF IsLeap(y) THEN 29 ELSE 28)
    ELSE IF m \in {4, 6, 9, 11} THEN 30 ELSE 31

\* Days from 1970-01-01 to January 1 of year y.
DayFromYear(y) ==
    365 * (y - 1970) + (((y - 1) \div 4) - 492) - (((y - 1) \div 100) - 19)
                     + (((y - 1) \div 400) - 4)

DaysBeforeMonth(y, m) ==
    <<0, 31, 59, 90, 120, 151, 181, 212, 243, 273, 304, 334>>[m]
        + (IF m > 2 /\ IsLeap(y) THEN 1 ELSE 0)

\* MakeDay(year, month, date): the day number; a date past the month's end
\* runs over into the following months.
MakeDay(y, m, d) == DayFromYear(y) + DaysBeforeMonth(y, m) + d - 1

\* Date.UTC(y, m - 1, d, h, mi, 0, 0) in seconds; h = 24 runs over into the next day.
DateUTC(y, m, d, h, mi) == MakeDay(y, m, d) * Day + h * Hour + mi * 60

YearFromDay(n) ==
    LET y0 == 1970 + (n * 400) \div 146097
    IN  CHOOSE y \in (y0 - 1)..(y0 + 1) : DayFromYear(y) <= n /\ n < DayFromYear(y + 1)

\* The month holding day doy (from 0) of year y.
MonthOfYearDay(y, doy) ==
    CHOOSE m \in 1..12 :
        DaysBeforeMonth(y, m) <= doy /\ doy < DaysBeforeMonth(y, m) + DaysInMonth(y, m)

\* Day of the week of day number n, 0 = Sunday (1970-01-01 was a Thursday).
WeekDay(n) == (n + 4) % 7

----------------------------------------------------------------------------
(* The America/New_York zone of Intl.DateTimeFormat *)

\* Daylight time starts on the second Sunday of March at 02:00 EST (07:00 UTC).
DSTStart(y) ==
    LET d1 == MakeDay(y, 3, 1)
    IN  (d1 + ((7 - WeekDay(d1)) % 7) + 7) * Day + 7 * Hour

\* Daylight time ends on the first Sunday of November at 02:00 EDT (06:00 UTC).
DSTEnd(y) ==
    LET d1 == MakeDay(y, 11, 1)
    IN  (d1 + ((7 - WeekDay(d1)) % 7)) * Day + 6 * Hour

\* timeZoneName: 'short' at instant t is "EDT" (TRUE) or "EST" (FALSE).
IsEDT(t) ==
    LET y == YearFromDay(t \div Day)
    IN  DSTStart(y) <= t /\ t < DSTEnd(y)

\* The UTC offset of US Eastern time in force at instant t, in seconds.
ETOffset(t) == IF IsEDT(t) THEN 0 - 4 * Hour ELSE 0 - 5 * Hour

\* The parts of day doy (from 0) of year y, month mo, sod seconds into the day.
PartsOfDate(y, mo, doy, sod, hc) ==
    [year   |-> y,
     month  |-> mo,
     day    |-> doy - DaysBeforeMonth(y, mo) + 1,
     hour   |-> IF sod \div Hour = 0 /\ hc = "h24" THEN 24 ELSE sod \div Hour,
     minute |-> (sod % Hour) \div 60,
     second |-> sod % 60]

PartsOfYearDay(y, doy, sod, hc) == PartsOfDate(y, MonthOfYearDay(y, doy), doy, sod, hc)

PartsOfDay(n, sod, hc) == PartsOfYearDay(YearFromDay(n), n - DayFromYear(YearFromDay(n)), sod, hc)

\* The parts of a local time given in seconds.
PartsOfLocal(loc, hc) == PartsOfDay(loc \div Day, loc % Day, hc)

\* The whole minutes of the four days from 2025-11-01 00:00 UTC, in which the
\* logger below runs: what formatToParts makes of them is computed once and
\* looked up from then on.
TabulatedStart == DateUTC(2025, 11, 1, 0, 0)

TabulatedMinutes == 4 * 24 * 60

EasternParts ==
    [hc \in {"h23", "h24"} |-> [k \in 0..(TabulatedMinutes - 1) |->
        PartsOfLocal(TabulatedStart + 60 * k + ETOffset(TabulatedStart + 60 * k), hc)]]

\* formatToParts(t) with timeZone 'America/New_York', hour12: false: the civil
\* reading of instant t.  Under hour cycle h24 the midnight hour prints as 24
\* (the date is the one of the day that starts).
formatToParts(t, hc) ==
    IF t % 60 = 0 /\ t >= TabulatedStart /\ t < TabulatedStart + 60 * TabulatedMinutes
    THEN EasternParts[hc][(t - TabulatedStart) \div 60]
    ELSE PartsOfLocal(t + ETOffset(t), hc)

\* new Date(y, m - 1, d, h, 0, 0, 0): civil components read in the zone of the
\* process.  In America/New_York a skipped or repeated civil time is read with
\* the offset in force before the transition.
LocalDate(y, m, d, h, tz) ==
    LET naive == DateUTC(y, m, d, h, 0)
        asEDT == naive + 4 * Hour
        asEST == naive + 5 * Hour
    IN  IF tz = "UTC" THEN naive
        ELSE IF IsEDT(asEDT) THEN asEDT
        ELSE asEST

\* The ISO string read with the offset -04:00 whatever the probe says.
DateFromISOAsEDT(y, mo, d, h, mi, edt) ==
    IF mo \in 1..12 /\ d \in 1..31 /\ h \in 0..24 /\ mi \in 0..59 /\ (h = 24 => mi = 0)
    THEN DateUTC(y, mo, d, h, mi) + 4 * Hour
    ELSE InvalidDate

\* new Date(`${y}-${mo}-${d}T${h}:${mi}:00${offset}`) in seconds: V8 accepts a
\* day of 1..31 for every month (it runs over into the next month) and the
\* hour 24 only as 24:00:00; anything else is an Invalid Date.
DateFromISO(y, mo, d, h, mi, edt) ==
    IF mo \in 1..12 /\ d \in 1..31 /\ h \in 0..24 /\ mi \in 0..59 /\ (h = 24 => mi = 0)
    THEN DateUTC(y, mo, d, h, mi) + (IF edt THEN 4 * Hour ELSE 5 * Hour)
    ELSE InvalidDate

----------------------------------------------------------------------------
(* Slugs *)

\* `${assetStr}-updown-${tag}-${n}`; n = InvalidDate stands for the text "NaN".
UnixSlug(a, tag, n) == [g |-> "unix", asset |-> a, tag |-> tag, n |-> n]

\* `${assetStr}-up-or-down-on-${monthName}-${day}`
DailySlug(a, monthName, d) == [g |-> "daily", asset |-> a, month |-> monthName, day |-> d]

\* `${assetStr}-up-or-down-${monthName}-${day}-${hour12}${ampm}-et`
HourlySlug(a, monthName, d, h12, ampm) ==
    [g |-> "h1", asset |-> a, month |-> monthName, day |-> d, hour12 |-> h12, ampm |-> ampm]

\* `${assetStr}-updown-${tag}-${YYYY}-${MM}-${DD}[-${HH}[-${MI}]]`; a part that
\* is absent from the text is InvalidDate.
LegacySlug(a, tag, y, mo, d, h, mi) ==
    [g |-> "legacy", asset |-> a, tag |-> tag, year |-> y, month |-> mo, day |-> d,
     hour |-> h, minute |-> mi]

\* The value parseSlug returns when no grammar matches.
null == [timeframe |-> "null", timestamp |-> InvalidDate]

\* parseSlug did not return: formatToParts was given an Invalid Date and threw
\* a RangeError.
rangeError == [timeframe |-> "RangeError", timestamp |-> InvalidDate]

\* Lower-case names that the object literal MONTHS inherits from
\* Object.prototype: MONTHS[name] is then a function, truthy and not a number.
InheritedNames == {"constructor"}

\* MONTHS[monthName.toLowerCase()]: the month number, 0 when the lookup is
\* undefined, InvalidDate (not a number) for an inherited property.
monthNum(monthName) ==
    IF \E i \in 1..12 : MONTHS[i] = monthName
    THEN CHOOSE i \in 1..12 : MONTHS[i] = monthName
    ELSE IF monthName \in InheritedNames THEN InvalidDate
    ELSE 0

tagTimeframe(tag) ==
    CASE tag = "15m" -> "m15" [] tag = "1h" -> "h1" [] tag = "1d" -> "daily" [] OTHER -> "null"

\* The year parseSlug gives a month and day that carry none: next year when
\* the date is before today's, this year otherwise.
inferYear(mo, d, nowParts) ==
    IF mo < nowParts.month \/ (mo = nowParts.month /\ d < nowParts.day)
    THEN nowParts.year + 1
    ELSE nowParts.year

\* slug.match(unixPattern): (shortName|fullName)-updown-(15m|1h|1d)-(\d+).  The
\* pattern is not anchored at its end, so it matches a legacy slug too, with
\* (\d+) taking the year.
unixMatch(s, a) ==
    /\ s.g \in {"unix", "legacy"}
    /\ s.asset \in {shortName(a), fullNames(a)}
    /\ tagTimeframe(s.tag) # "null"
    /\ (s.g = "unix" => s.n # InvalidDate)

\* slug.match(dailyPattern)
dailyMatch(s, a) == s.g = "daily" /\ s.asset \in {shortName(a), fullNames(a)}

\* slug.match(h1Pattern)
h1Match(s, a) == s.g = "h1" /\ s.asset \in {shortName(a), fullNames(a)}

\* slug.match(patterns[tf]) for the first tf of m15, h1, daily that matches:
\* the short name only, and the parts the pattern of the tag asks for.
legacyMatch(s, a) ==
    /\ s.g = "legacy"
    /\ s.asset = shortName(a)
    /\ \/ s.tag = "15m" /\ s.hour # InvalidDate /\ s.minute # InvalidDate
       \/ s.tag = "1h" /\ s.hour # InvalidDate
       \/ s.tag = "1d"

\* The unix branch of parseSlug: the instant is read in US Eastern time and
\* built again from its civil components, seconds dropped.
parseUnix(s, hc) ==
    LET unixTimestamp == IF s.g = "unix" THEN s.n ELSE s.year
        et       == formatToParts(unixTimestamp, hc)
        testDate == DateUTC(et.year, et.month, et.day, et.hour, et.minute)
    IN  [timeframe |-> tagTimeframe(s.tag),
         timestamp |-> DateFromISO(et.year, et.month, et.day, et.hour, et.minute,
                                   IsEDT(testDate))]

\* The daily-text branch of parseSlug.
parseDaily(s, wall, hc, tz) ==
    LET mo == monthNum(s.month)
    IN  IF mo = 0 THEN null
        ELSE IF mo \notin 1..12 THEN rangeError
        ELSE LET year == inferYear(mo, s.day, formatToParts(wall, hc))
                 edt  == IsEDT(LocalDate(year, mo, s.day, 0, tz))
             IN  [timeframe |-> "daily",
                  timestamp |-> DateFromISO(year, mo, s.day, 0, 0, edt)]

\* hourNum of the hourly-text branch: 12am is 0, 12pm stays 12, pm adds 12.
hourNum(h12, ampm) ==
    IF ampm = "pm" /\ h12 < 12 THEN h12 + 12
    ELSE IF ampm = "am" /\ h12 = 12 THEN 0
    ELSE h12

\* The hourly-text branch of parseSlug.
parseHourly(s, wall, hc, tz) ==
    LET mo == monthNum(s.month)
    IN  IF mo = 0 THEN null
        ELSE IF mo \notin 1..12 THEN rangeError
        ELSE LET h    == hourNum(s.hour12, s.ampm)
                 year == inferYear(mo, s.day, formatToParts(wall, hc))
                 edt  == IsEDT(LocalDate(year, mo, s.day, h, tz))
             IN  [timeframe |-> "h1",
                  timestamp |-> DateFromISO(year, mo, s.day, h, 0, edt)]

\* timestamp.setMinutes(timestamp.getMinutes() + 15) and
\* timestamp.setHours(timestamp.getHours() + 1): the civil time of t in the
\* zone of the process, moved by d seconds and read back in that zone.  In
\* America/New_York a skipped or repeated civil time is read with the offset
\* in force before the transition; an Invalid Date stays one.
setLocal(t, d, tz) ==
    IF t = InvalidDate THEN InvalidDate
    ELSE IF tz = "UTC" THEN t + d
    ELSE IF IsEDT(t + ETOffset(t) + d + 4 * Hour) THEN t + ETOffset(t) + d + 4 * Hour
    ELSE t + ETOffset(t) + d + 5 * Hour

\* The legacy branch of parseSlug: the civil time of the slug (23:59:59 for a
\* daily slug) with the offset in force at 12:00 UTC of its date; for m15 and
\* h1 the duration of the window is added on the clock of the process zone.
parseLegacy(s, tz) ==
    LET tf  == tagTimeframe(s.tag)
        edt == IsEDT(DateUTC(s.year, s.month, s.day, 12, 0))
    IN  IF ~(s.month \in 1..12 /\ s.day \in 1..31) THEN rangeError
        ELSE IF tf = "m15" THEN
            [timeframe |-> tf,
             timestamp |-> setLocal(DateFromISO(s.year, s.month, s.day, s.hour, s.minute, edt),
                                    15 * 60, tz)]
        ELSE IF tf = "h1" THEN
            [timeframe |-> tf,
             timestamp |-> setLocal(DateFromISO(s.year, s.month, s.day, s.hour, 0, edt),
                                    Hour, tz)]
        ELSE [timeframe |-> tf,
              timestamp |-> DateFromISO(s.year, s.month, s.day, 23, 59, edt) + 59]

\* parseSlug with the legacy grammar tried before the other three.
parseSlugLegacyFirst(s, a, wall, hc, tz) ==
    IF legacyMatch(s, a) THEN parseLegacy(s, tz)
    ELSE IF unixMatch(s, a) THEN parseUnix(s, hc)
    ELSE IF dailyMatch(s, a) THEN parseDaily(s, wall, hc, tz)
    ELSE IF h1Match(s, a) THEN parseHourly(s, wall, hc, tz)
    ELSE null

\* parseSlug(slug, asset), with wall the instant new Date() returns inside it:
\* the grammars in the order of the source, the first match decides.
parseSlug(s, a, wall, hc, tz) ==
    IF unixMatch(s, a) THEN parseUnix(s, hc)
    ELSE IF dailyMatch(s, a) THEN parseDaily(s, wall, hc, tz)
    ELSE IF h1Match(s, a) THEN parseHourly(s, wall, hc, tz)
    ELSE IF legacyMatch(s, a) THEN parseLegacy(s, tz)
    ELSE null

\* generateExpectedSlug(asset, timeframe, now)
generateExpectedSlug(a, tf, t, hc) ==
    LET nowParts == formatToParts(t, hc)
        targetMi == IF tf = "m15" THEN (nowParts.minute \div 15) * 15 ELSE 0
        targetH  == IF tf = "daily" THEN 0 ELSE nowParts.hour
        targetD  == IF tf = "daily" /\ nowParts.hour >= 12 THEN nowParts.day + 1
                    ELSE nowParts.day
        assetStr == IF tf = "m15" THEN shortName(a) ELSE fullNames(a)
    IN  IF tf = "m15" THEN
            LET testDate == DateUTC(nowParts.year, nowParts.month, targetD, targetH, targetMi)
            IN  UnixSlug(assetStr, "15m",
                         DateFromISO(nowParts.year, nowParts.month, targetD, targetH,
                                     targetMi, IsEDT(testDate)))
        ELSE IF tf = "h1" THEN
            HourlySlug(assetStr, MONTHS[nowParts.month], targetD,
                       IF targetH = 0 THEN 12 ELSE IF targetH > 12 THEN targetH - 12 ELSE targetH,
                       IF targetH < 12 THEN "am" ELSE "pm")
        ELSE DailySlug(assetStr, MONTHS[nowParts.month], targetD)

\* isActiveMarket(parsed, asset, timeframe, now): [matches, parsed.timestamp],
\* or a RangeError thrown by formatToParts on an Invalid Date.
isActiveMarket(p, a, tf, t, hc) ==
    IF p = null THEN [threw |-> FALSE, matches |-> FALSE, timestamp |-> InvalidDate]
    ELSE IF p.timestamp = InvalidDate
    THEN [threw |-> TRUE, matches |-> FALSE, timestamp |-> InvalidDate]
    ELSE
        LET n == formatToParts(t, hc)
            m == formatToParts(p.timestamp, hc)
            daysInMonth == DaysInMonth(n.year, n.month)
            expectedD == IF n.hour >= 12
                         THEN (IF n.day + 1 > daysInMonth THEN 1 ELSE n.day + 1)
                         ELSE n.day
            matches ==
                CASE tf = "m15" ->
                        n.year = m.year /\ n.month = m.month /\ n.day = m.day
                        /\ n.hour = m.hour /\ n.minute >= m.minute /\ n.minute < m.minute + 15
                  [] tf = "h1" ->
                        n.year = m.year /\ n.month = m.month /\ n.day = m.day
                        /\ n.hour = m.hour
                  [] tf = "daily" ->
                        n.year = m.year /\ n.month = m.month /\ expectedD = m.day
                  [] OTHER -> FALSE
        IN  [threw |-> FALSE, matches |-> matches, timestamp |-> p.timestamp]

----------------------------------------------------------------------------
(* The inputs of the model *)

\* Hours of instants sampled from 04:00 UTC of each sampled date on.
HourSpan == 26

\* Candidate windows looked at on each side of the current one.
WindowReach == 5

\* The sampled dates: the spring-forward and fall-back dates of 2025, a month
\* end and the year end.
SampleDays ==
    {MakeDay(2025, 3, 9), MakeDay(2025, 11, 2), MakeDay(2025, 11, 30), MakeDay(2025, 12, 31)}

\* Minute and second of the sampled instants within each hour.
SampleTimes == {<<0, 0>>, <<14, 59>>, <<20, 0>>, <<47, 30>>}

\* 18:47:00 US Eastern time on 2025-11-02, the evening of the fall-back date.
ScenarioNow == DateUTC(2025, 11, 2, 23, 47)

Instants ==
    {d * Day + (4 + h) * Hour + ms[1] * 60 + ms[2] :
        d \in SampleDays, h \in 0..(HourSpan - 1), ms \in SampleTimes}
    \cup {ScenarioNow}

\* Time between two ticks.
Deltas == {10 * 60, Hour, 90 * 60, 20 * Hour, 25 * Hour}

\* Time between the pass that cached a market and a pass that looks at it again.
RevalidateDeltas == {13 * 60, 25 * Hour}

\* Nominal duration of a window, in seconds.
Duration(tf) == CASE tf = "m15" -> 15 * 60 [] tf = "h1" -> Hour [] OTHER -> Day

timeframeTag(tf) == CASE tf = "m15" -> "15m" [] tf = "h1" -> "1h" [] OTHER -> "1d"

\* The instant at which the US Eastern civil day holding t starts.
ETMidnight(t) ==
    LET naive == ((t + ETOffset(t)) \div Day) * Day
    IN  IF IsEDT(naive + 4 * Hour) THEN naive + 4 * Hour ELSE naive + 5 * Hour

\* Starts of the windows of cadence tf around instant t: the aligned quarter
\* hours, the aligned hours, the civil midnights.
Windows(tf, t) ==
    IF tf = "daily"
    THEN {ETMidnight(t + k * Day) : k \in (0 - WindowReach)..WindowReach}
    ELSE {((t \div Duration(tf)) + k) * Duration(tf) : k \in (0 - WindowReach)..WindowReach}

noSlug == UnixSlug("", "", InvalidDate)

noResult == [threw |-> FALSE, matches |-> FALSE, timestamp |-> InvalidDate]

----------------------------------------------------------------------------
(* The state of the logger *)

\* collectData calls that the 1-second timer starts.
MaxPasses == 2

\* Times the wall clock moves on while the logger runs.
MaxAdvances == 1

\* getSpotPrice calls that come back without a price while the logger runs.
MaxSpotFailures == 1

\* Rows buffered for an asset in the runs that go on for ever.
MaxRows == 2

\* The time by which the wall clock moves on: from 18:47 to 19:00.
ClockStep == 13 * 60

Passes == 1..MaxPasses

\* The callers of refreshMarkets: main (0) and the collectData calls.
Callers == {0} \cup Passes

\* Requests by expected slug that are answered otherwise than the request
\* before them in the same refreshMarkets call (served after a failure, a
\* failure after a served one), while the logger runs.
MaxSwitches == 1

\* The array ASSETS in its order.
AssetOrder == <<"BTC", "ETH", "SOL">>

\* The array TIMEFRAMES in its order.
TimeframeOrder == <<"m15", "h1", "daily">>

\* MARKETS[asset][tf] = null
noMarket == [slug |-> noSlug, clobTokenIds |-> <<>>, timestamp |-> InvalidDate]

\* A column holds the text toFixed(2) printed, as a count of hundredths, or
\* one of three values that are no such count: the text "-0.00", which
\* toFixed(2) prints for a negative number that rounds to zero, the text '' of
\* a column left empty, and undefined for a column never assigned.  Prices lie
\* in 0..1, so the counts lie in -100..100.
negZero == 0 - 10000

empty == 0 - 20000

unset == 0 - 30000

\* priceMap[key] ?? null when the key is missing.
noPrice == 0 - 1

emptyQuote == [buy |-> empty, sell |-> empty, spread_up |-> empty, spread_down |-> empty]

unsetQuote == [buy |-> unset, sell |-> unset, spread_up |-> unset, spread_down |-> unset]

\* rows[asset] undefined: no spot price for the asset in this pass.
noRow == [timestamp |-> InvalidDate, quotes |-> [tf \in TIMEFRAMES |-> unsetQuote]]

\* An empty priceMap.
noPrices == [k \in {} |-> noPrice]

\* A collectData call not yet made.
idlePass ==
    [pc |-> "idle", now |-> InvalidDate, i |-> 1, needRefresh |-> FALSE,
     rows |-> [a \in ASSETS |-> noRow], batchRequests |-> {}, priceMap |-> noPrices]

\* No refreshMarkets call of this caller in progress; newMarkets as
\* refreshMarkets first builds it, every slot null.  i counts the requests by
\* expected slug, last is what the request before was answered with.
idleRefresh(assets) ==
    [pc |-> "idle", now |-> InvalidDate, i |-> 1, last |-> "none",
     newMarkets |-> [a \in assets |-> [tf \in TIMEFRAMES |-> noMarket]]]

\* The logger once the module is loaded and main() has run up to its first
\* await, the catalogue request of the initial refreshMarkets.
LoggerLoaded ==
    /\ clock = ScenarioNow
    /\ MARKETS = [a \in ASSETS |-> [tf \in TIMEFRAMES |-> noMarket]]
    /\ BUFFERS = [a \in ASSETS |-> <<>>]
    /\ passes = [p \in Passes |-> idlePass]
    /\ refreshes = [o \in Callers |-> IF o = 0 THEN [idleRefresh(ASSETS) EXCEPT !.pc = "catalogue"]
                                       ELSE idleRefresh(ASSETS)]
    /\ main = [pc |-> "initial", tries |-> 0]
    /\ spotFailures = 0
    /\ switches = 0
    /\ ACTIVE_BOUGIES = [a \in ASSETS |-> [tf \in TIMEFRAMES |-> InvalidDate]]
    /\ CSV = [a \in ASSETS |-> <<>>]

----------------------------------------------------------------------------
(* One resolution pass: encode, decode, contain *)

Init ==
    /\ hourCycle \in {"h23", "h24"}
    /\ localTZ \in {"UTC", "America/New_York"}
    /\ asset \in ASSETS
    /\ timeframe \in TIMEFRAMES
    /\ now \in Instants
    /\ pc = "start"
    /\ slug = noSlug
    /\ parsed = null
    /\ active = noResult
    /\ later = now
    /\ laterSlug = noSlug
    /\ accepted = {}
    /\ decoded = {}
    /\ reparsed = null
    /\ activeLater = noResult
    /\ LoggerLoaded

\* const expectedSlug = generateExpectedSlug(asset, tf, now)
Generate ==
    /\ pc = "start"
    /\ slug' = generateExpectedSlug(asset, timeframe, now, hourCycle)
    /\ pc' = "slug"
    /\ UNCHANGED <<hourCycle, localTZ, asset, timeframe, now, parsed, active,
                   later, laterSlug, accepted, decoded, reparsed, activeLater>>
    /\ UNCHANGED loggerVars

\* const parsed = parseSlug(expectedSlug, asset)
Parse ==
    /\ pc = "slug"
    /\ parsed' = parseSlug(slug, asset, now, hourCycle, localTZ)
    /\ pc' = "parsed"
    /\ UNCHANGED <<hourCycle, localTZ, asset, timeframe, now, slug, active,
                   later, laterSlug, accepted, decoded, reparsed, activeLater>>
    /\ UNCHANGED loggerVars

\* const [isActive] = isActiveMarket(parsed, asset, tf, now)
Check ==
    /\ pc = "parsed"
    /\ active' = isActiveMarket(parsed, asset, timeframe, now, hourCycle)
    /\ pc' = "checked"
    /\ UNCHANGED <<hourCycle, localTZ, asset, timeframe, now, slug, parsed,
                   later, laterSlug, accepted, decoded, reparsed, activeLater>>
    /\ UNCHANGED loggerVars

\* Two ticks: the expected slug at now and at a later instant.
Tick(delta) ==
    /\ pc = "start"
    /\ slug' = generateExpectedSlug(asset, timeframe, now, hourCycle)
    /\ later' = now + delta
    /\ laterSlug' = generateExpectedSlug(asset, timeframe, now + delta, hourCycle)
    /\ pc' = "ticked"
    /\ UNCHANGED <<hourCycle, localTZ, asset, timeframe, now, parsed, active,
                   accepted, decoded, reparsed, activeLater>>
    /\ UNCHANGED loggerVars

\* The validity check of the markets around now: each window as a descriptor,
\* and each window's epoch slug decoded by parseSlug, given to isActiveMarket.
Scan ==
    /\ pc = "start"
    /\ accepted' =
          {w \in Windows(timeframe, now) :
              isActiveMarket([timeframe |-> timeframe, timestamp |-> w],
                             asset, timeframe, now, hourCycle).matches}
    /\ decoded' =
          {w \in Windows(timeframe, now) :
              isActiveMarket(parseSlug(UnixSlug(shortName(asset), timeframeTag(timeframe), w),
                                       asset, now, hourCycle, localTZ),
                             asset, timeframe, now, hourCycle).matches}
    /\ pc' = "scanned"
    /\ UNCHANGED <<hourCycle, localTZ, asset, timeframe, now, slug, parsed, active,
                   later, laterSlug, reparsed, activeLater>>
    /\ UNCHANGED loggerVars

\* A later pass of collectData over the cached market: its slug is parsed
\* again and the result given to isActiveMarket with the instant of that pass.
Revalidate(delta) ==
    /\ pc = "checked"
    /\ later' = now + delta
    /\ reparsed' = parseSlug(slug, asset, now + delta, hourCycle, localTZ)
    /\ activeLater' = isActiveMarket(reparsed',
                                     asset, timeframe, now + delta, hourCycle)
    /\ pc' = "revalidated"
    /\ UNCHANGED <<hourCycle, localTZ, asset, timeframe, now, slug, parsed, active,
                   laterSlug, accepted, decoded>>
    /\ UNCHANGED loggerVars

Next ==
    \/ Generate
    \/ Parse
    \/ Check
    \/ \E delta \in Deltas : Tick(delta)
    \/ Scan
    \/ \E delta \in RevalidateDeltas : Revalidate(delta)

Spec == Init /\ [][Next]_vars

----------------------------------------------------------------------------
(* The catalogue scan of refreshMarkets: parseSlug on the slugs of the API *)

\* An absent part of a slug.
absent == InvalidDate

\* Epoch seconds carried by the sampled epoch slugs: the epoch, an hour after
\* the spring-forward of 2025, a quarter hour of 2025-11-02, the same with 45
\* seconds more and with one minute more.
EpochSamples ==
    {0, DateUTC(2025, 3, 9, 8, 0), DateUTC(2025, 11, 2, 17, 30),
     DateUTC(2025, 11, 2, 17, 30) + 45, DateUTC(2025, 11, 2, 17, 31)}

\* Month words of the sampled text slugs: three months, a word that is no
\* month, a word that is a property of every object.
MonthWords == {"march", "november", "december", "smarch", "constructor"}

DayNumbers == {2, 9, 30, 31}

\* Hours of the sampled hourly slugs, as written: 12am, 3am, 12pm, 3pm, 11pm.
HourWords == {<<12, "am">>, <<3, "am">>, <<12, "pm">>, <<3, "pm">>, <<11, "pm">>}

\* A slug of none of the four grammars, e.g. will-bitcoin-hit-100k.
OtherSlug(a) == [g |-> "other", asset |-> a]

Catalogue ==
    {UnixSlug(a, tag, n) : a \in {"btc", "bitcoin", "eth"},
                           tag \in {"15m", "1h", "1d", "4h"}, n \in EpochSamples}
    \cup {DailySlug("bitcoin", m, d) : m \in MonthWords, d \in DayNumbers}
    \cup {HourlySlug("bitcoin", m, d, hw[1], hw[2]) :
              m \in MonthWords \ {"december"}, d \in {2, 9}, hw \in HourWords}
    \cup {LegacySlug(a, "15m", 2025, mo, d, 13, 30) :
              a \in {"btc", "bitcoin"}, mo \in {3, 11}, d \in {2, 9}}
    \cup {LegacySlug("btc", "1h", 2025, mo, d, 13, absent) : mo \in {3, 11}, d \in {2, 9}}
    \cup {LegacySlug("btc", "1d", 2025, mo, d, absent, absent) : mo \in {3, 11}, d \in {2, 9}}
    \cup {OtherSlug("bitcoin")}

\* The wall clock of the sampled scans: every sixth hour of the sampled instants.
CatalogueClocks == {t \in Instants : t % (6 * Hour) = 0}

InitCatalogue ==
    /\ hourCycle \in {"h23", "h24"}
    /\ localTZ \in {"UTC", "America/New_York"}
    /\ asset \in ASSETS
    /\ timeframe = "m15"
    /\ now \in CatalogueClocks
    /\ pc = "entry"
    /\ slug \in Catalogue
    /\ parsed = null
    /\ active = noResult
    /\ later = now
    /\ laterSlug = noSlug
    /\ accepted = {}
    /\ decoded = {}
    /\ reparsed = null
    /\ activeLater = noResult
    /\ LoggerLoaded

\* const parsed = parseSlug(slug, asset, tfHint)
ParseEntry ==
    /\ pc = "entry"
    /\ parsed' = parseSlug(slug, asset, now, hourCycle, localTZ)
    /\ pc' = "decoded"
    /\ UNCHANGED <<hourCycle, localTZ, asset, timeframe, now, slug, active,
                   later, laterSlug, accepted, decoded, reparsed, activeLater>>
    /\ UNCHANGED loggerVars

\* const [isActive] = isActiveMarket(parsed, asset, parsed.timeframe, now),
\* reached with a descriptor of a cadence other than m15.
CheckEntry ==
    /\ pc = "decoded"
    /\ parsed \notin {null, rangeError}
    /\ parsed.timeframe # "m15"
    /\ active' = isActiveMarket(parsed, asset, parsed.timeframe, now, hourCycle)
    /\ pc' = "judged"
    /\ UNCHANGED <<hourCycle, localTZ, asset, timeframe, now, slug, parsed,
                   later, laterSlug, accepted, decoded, reparsed, activeLater>>
    /\ UNCHANGED loggerVars

NextCatalogue ==
    \/ ParseEntry
    \/ CheckEntry

SpecCatalogue == InitCatalogue /\ [][NextCatalogue]_vars

----------------------------------------------------------------------------
(* The running logger: main, refreshMarkets, collectData *)

\* Retries of the startup loop of main.
MaxTries == 5

\* The instants the wall clock takes.
LoggerClocks == {ScenarioNow + k * ClockStep : k \in 0..MaxAdvances}

\* clobTokenIds of the event of a slug as the API serves it: the Up token, the
\* Down token.
TokenIds(s) == <<[slug |-> s, outcome |-> "Up"], [slug |-> s, outcome |-> "Down"]>>

\* The token ids of the events the API knows.
AllTokens ==
    {TokenIds(generateExpectedSlug(a, tf, t, "h23"))[k] :
        a \in ASSETS, tf \in TIMEFRAMES, t \in LoggerClocks, k \in 1..2}

\* The price the order book of the API holds for a token and a side, in
\* thousandths: a different one for every token and side.  The Up token sells
\* 0.025 above its buying price, the Down token 0.005 below.
Quote(token, side) ==
    (CASE token.slug.g = "unix" -> 112 + ((token.slug.n \div (15 * 60)) % 3) * 7
       [] token.slug.g = "h1" -> 323 + (token.slug.hour12 % 3) * 7
       [] OTHER -> 534 + (token.slug.day % 3) * 7)
    + (CASE token.slug.asset \in {"btc", "bitcoin"} -> 0
         [] token.slug.asset \in {"eth", "ethereum"} -> 30
         [] OTHER -> 60)
    + (IF token.outcome = "Up" THEN 0 ELSE 101)
    + (IF side = "BUY" THEN 0 ELSE IF token.outcome = "Up" THEN 25 ELSE 0 - 5)

\* What the prices request is answered with.
PriceAnswers == {"none", "requested", "upOnly", "all"}

\* The priceMap getCLOBPricesBatch builds from the answer: empty on an error,
\* the tokens asked for, their Up tokens only, or every token the API knows.
priceMapOf(answer, requests) ==
    LET tokens == CASE answer = "requested" -> requests
                    [] answer = "upOnly" -> {r \in requests : r.outcome = "Up"}
                    [] answer = "all" -> AllTokens
                    [] OTHER -> {}
    IN  [k \in tokens \X {"BUY", "SELL"} |-> Quote(k[1], k[2])]

\* market && market.clobTokenIds && market.clobTokenIds.length >= 2
hasTokens(m) == m # noMarket /\ Len(m.clobTokenIds) >= 2

\* What collectData makes of the result of isActiveMarket.
judged(r) == IF r.threw THEN "throws" ELSE IF r.matches THEN "active" ELSE "inactive"

\* What collectData makes of the descriptor of a cached market at instant t.
verdict(p, a, tf, t, hc) ==
    IF p = null THEN "unparsed"
    ELSE IF p = rangeError THEN "throws"
    ELSE judged(isActiveMarket(p, a, tf, t, hc))

\* What the pass P of collectData makes of the market cached for a slot: the
\* slug is parsed at the wall clock, the descriptor judged at the now of the pass.
statusOf(P, a, tf) ==
    IF ~hasTokens(MARKETS[a][tf]) THEN "absent"
    ELSE verdict(parseSlug(MARKETS[a][tf].slug, a, clock, hourCycle, localTZ),
                 a, tf, P.now, hourCycle)

\* What pass P makes of each slot of an asset.
statusesOf(P, a) == [tf \in TIMEFRAMES |-> statusOf(P, a, tf)]

\* Step 1 of collectData for an asset with a spot price, st being what the
\* pass makes of its slots: the row, with the columns of the slots without an
\* active market set to ''; the token ids of the active markets are asked for;
\* an inactive market calls for a refresh.
stepOne(P, a, st) ==
    [P EXCEPT !.rows[a] =
                  [timestamp |-> P.now,
                   quotes    |-> [tf \in TIMEFRAMES |->
                                     IF st[tf] = "active" THEN unsetQuote ELSE emptyQuote]],
              !.batchRequests =
                  @ \cup UNION {{MARKETS[a][tf].clobTokenIds[1], MARKETS[a][tf].clobTokenIds[2]} :
                                   tf \in {x \in TIMEFRAMES : st[x] = "active"}},
              !.needRefresh = @ \/ (\E tf \in TIMEFRAMES : st[tf] = "inactive")]

\* priceMap[`${tokenId}-${side}`] ?? null
lookupPrice(pm, token, side) ==
    IF <<token, side>> \in DOMAIN pm THEN pm[<<token, side>>] ELSE noPrice

\* parseFloat(priceStr) for a price of k thousandths, 0 < k <= 1000: the
\* double nearest to k/1000 is m / 2^e with m of 53 bits.  The record holds e,
\* the low eleven bits of m, and rho = 1000 * m - k * 2^e, which is how far the
\* double lies above (rho > 0) or below (rho < 0) the decimal it stands for,
\* in units of 1 / (1000 * 2^e).  2^e is taken modulo 2^11 * 1000, as
\* 2^14 * (2^(e - 14) mod 125).
doubleOf(k) ==
    LET j == CHOOSE i \in 0..10 : k * 2^i >= 1000 /\ (i = 0 \/ k * 2^(i - 1) < 1000)
        q == (k * (2^14 * (((2^19 % 125) * (2^19 % 125) * 2^j) % 125))) % (2^11 * 1000)
    IN  [e   |-> 52 + j,
         m   |-> ((q \div 1000) + (IF q % 1000 > 500 THEN 1 ELSE 0)) % 2^11,
         rho |-> IF q % 1000 > 500 THEN 1000 - (q % 1000) ELSE 0 - (q % 1000)]

\* price.toFixed(2) of a price of x thousandths held as a double: the count of
\* hundredths nearest to the double, the larger one when both are as near.  A
\* price ending in 5 thousandths goes down when its double lies below it
\* (0.485 prints as "0.48", 0.125 as "0.13").
toFixed2(x) ==
    IF x % 10 = 5 /\ doubleOf(x).rho < 0 THEN (x - 5) \div 10 ELSE (x + 5) \div 10

\* sell - buy of two doubles A > B whose decimals are D thousandths apart: how
\* far the double the subtraction gives lies above or below D/1000, in units
\* of 1 / (1000 * 2^B.e).  N is the error the operands bring, t the number of
\* low bits the result has no room for, M those bits and the one above them;
\* the result is rounded to the nearest, to the even one on a tie.
errorOfDifference(A, B, D) ==
    LET N == A.rho * 2^(B.e - A.e) - B.rho
        t == B.e - doubleOf(D).e - (IF D = 125 /\ N < 0 THEN 1 ELSE 0)
        M == (A.m * 2^(B.e - A.e) - B.m) % 2^(t + 1)
    IN  IF t <= 0 THEN N
        ELSE IF M % 2^t < 2^(t - 1) \/ (M % 2^t = 2^(t - 1) /\ M < 2^t)
        THEN N - 1000 * (M % 2^t)
        ELSE N + 1000 * (2^t - (M % 2^t))

\* (hi - lo).toFixed(2) for prices hi >= lo in thousandths: a difference
\* ending in 5 thousandths goes down when the double of the difference lies
\* below it (0.105 - 0.100 prints as "0.00", 0.100 - 0.095 as "0.01").
fixedDifference(hi, lo) ==
    IF (hi - lo) % 10 # 5 THEN (hi - lo + 5) \div 10
    ELSE IF lo = 0 THEN toFixed2(hi)
    ELSE IF errorOfDifference(doubleOf(hi), doubleOf(lo), hi - lo) < 0
    THEN (hi - lo - 5) \div 10
    ELSE (hi - lo + 5) \div 10

\* spread.toFixed(2) with spread = sell - buy: a negative spread prints with
\* its sign, "-0.00" included.
spreadFixed2(sell, buy) ==
    IF sell >= buy THEN fixedDifference(sell, buy)
    ELSE IF fixedDifference(buy, sell) = 0 THEN negZero
    ELSE 0 - fixedDifference(buy, sell)

\* Step 3: the four columns of a slot from the four prices of its market.
buildQuote(upBuy, upSell, downBuy, downSell) ==
    IF upSell # noPrice /\ downSell # noPrice
    THEN [buy         |-> toFixed2(upSell),
          sell        |-> toFixed2(downSell),
          spread_up   |-> IF upBuy # noPrice THEN spreadFixed2(upSell, upBuy) ELSE empty,
          spread_down |-> IF downBuy # noPrice THEN spreadFixed2(downSell, downBuy) ELSE empty]
    ELSE emptyQuote

quoteOf(pm, m) ==
    buildQuote(lookupPrice(pm, m.clobTokenIds[1], "BUY"),
               lookupPrice(pm, m.clobTokenIds[1], "SELL"),
               lookupPrice(pm, m.clobTokenIds[2], "BUY"),
               lookupPrice(pm, m.clobTokenIds[2], "SELL"))

\* Step 3 without its own look at the market: every slot of a market with
\* token ids is filled from the priceMap.
finalRowUnchecked(P, a, pm, st) ==
    [timestamp |-> P.rows[a].timestamp,
     quotes    |-> [tf \in TIMEFRAMES |->
                       IF st[tf] \in {"active", "inactive"} THEN quoteOf(pm, MARKETS[a][tf])
                       ELSE P.rows[a].quotes[tf]]]

\* Step 3 of collectData for an asset, st being what the pass makes of its
\* slots by now: the row as it is pushed.
finalRow(P, a, pm, st) ==
    [timestamp |-> P.rows[a].timestamp,
     quotes    |-> [tf \in TIMEFRAMES |->
                       IF st[tf] = "active" THEN quoteOf(pm, MARKETS[a][tf])
                       ELSE P.rows[a].quotes[tf]]]

\* The assets, by their place in ASSETS, at which step 3 throws.
throwsAt(P, sts) ==
    {k \in 1..Len(AssetOrder) :
        /\ P.rows[AssetOrder[k]] # noRow
        /\ \E tf \in TIMEFRAMES : sts[AssetOrder[k]][tf] = "throws"}

\* Where collectData goes after step 3: into refreshMarkets, or to its end.
afterFill(P, thrown) ==
    IF thrown = {} /\ P.needRefresh THEN "refresh" ELSE "done"

\* The market refreshMarkets takes from the event served for the expected
\* slug s, whose descriptor is p: none when the slug does not parse, and for
\* m15 when the descriptor is not active at the now of the refresh.
servedOf(s, p, a, tf, t, hc) ==
    IF p = null \/ p = rangeError THEN noMarket
    ELSE IF tf = "m15" /\ ~isActiveMarket(p, a, tf, t, hc).matches THEN noMarket
    ELSE [slug |-> s, clobTokenIds |-> TokenIds(s), timestamp |-> p.timestamp]

\* What the catalogue scan makes of an event of slug s without token ids,
\* whose descriptor is p, from the result r of isActiveMarket: the market when
\* active, nothing when not; when isActiveMarket threw, the RangeError.
scanned(s, p, r) ==
    IF r.threw THEN rangeError
    ELSE IF r.matches THEN [slug |-> s, clobTokenIds |-> <<>>, timestamp |-> p.timestamp]
    ELSE noMarket

\* The market the catalogue scan of refreshMarkets takes from an event of
\* slug s that has no token ids: none for m15, and none unless active at the
\* now of the refresh.  The scan has no try of its own: when parseSlug or
\* isActiveMarket throws, the RangeError leaves the scan.
listedOf(s, p, a, t, hc) ==
    IF p = null THEN noMarket
    ELSE IF p = rangeError THEN rangeError
    ELSE IF p.timeframe = "m15" THEN noMarket
    ELSE scanned(s, p, isActiveMarket(p, a, p.timeframe, t, hc))

\* An event a catalogue can list on which the scan throws: its month word is a
\* name MONTHS inherits (bitcoin-up-or-down-on-constructor-5).
ThrowingSlug == DailySlug("bitcoin", "constructor", 5)

\* What the catalogue request is answered with: an error or something that is
\* no array, an array that lists ThrowingSlug, an array with none of the
\* expected events, an array that lists the expected events without token ids.
CatalogueAnswers == {"error", "throwing", "none", "listed"}

\* What a request by expected slug is answered with: nothing (an error, a
\* status that is not ok, an event without token ids), or the event with its
\* token ids.
RefreshAnswers == {"none", "served"}

\* newMarkets[a][tf] after the request for the expected slug s of a refresh
\* that sampled t was answered, the slot holding listed before: the event as
\* served with its token ids, else what the slot held.  parseSlug reads the
\* wall clock of the moment the answer is in.
newMarket(answer, listed, s, a, tf, t) ==
    IF answer = "served"
       /\ servedOf(s, parseSlug(s, a, clock, hourCycle, localTZ), a, tf, t, hourCycle) # noMarket
    THEN servedOf(s, parseSlug(s, a, clock, hourCycle, localTZ), a, tf, t, hourCycle)
    ELSE listed

\* The slot takes whatever the refresh found, nothing included.
updateSlotAlways(old, new) == new

\* The update of one slot of MARKETS at the end of refreshMarkets.
updateSlot(old, new) ==
    IF (old = noMarket /\ new # noMarket)
       \/ (old # noMarket /\ new # noMarket /\ old.slug # new.slug)
    THEN new
    ELSE old

\* needAll() of main
needAll(markets) == \A a \in ASSETS : \A tf \in TIMEFRAMES : hasTokens(markets[a][tf])

\* Time passes.
Advance ==
    /\ clock < ScenarioNow + MaxAdvances * ClockStep
    /\ clock' = clock + ClockStep
    /\ UNCHANGED <<MARKETS, BUFFERS, passes, refreshes, main, spotFailures, switches, ACTIVE_BOUGIES, CSV>>
    /\ UNCHANGED resolverVars

\* tries when the refreshMarkets call of main is back: the call of the startup
\* loop is followed by tries += 1.
triesAfter == IF main.pc = "retry" THEN main.tries + 1 ELSE main.tries

\* main() has left its startup loop, set the two timers and returned: tries is
\* gone with it.
mainReturned == [pc |-> "running", tries |-> 0]

\* The startup loop of main without tries += 1: it goes on until every slot
\* holds two token ids.
ReturnUntilFilled(o, markets) ==
    /\ refreshes' = [refreshes EXCEPT ![o] = idleRefresh(ASSETS)]
    /\ IF o = 0
       THEN /\ main' = IF needAll(markets) THEN mainReturned
                       ELSE [tries |-> main.tries, pc |-> "sleep"]
            /\ UNCHANGED passes
       ELSE /\ passes' = [passes EXCEPT ![o].pc = "done"]
            /\ UNCHANGED main

\* refreshMarkets returns to its caller: main goes on with its startup loop
\* and sets the timers when it leaves it, a collectData call ends.
Return(o, markets) ==
    /\ refreshes' = [refreshes EXCEPT ![o] = idleRefresh(ASSETS)]
    /\ IF o = 0
       THEN /\ main' = IF needAll(markets) \/ triesAfter >= MaxTries
                       THEN mainReturned
                       ELSE [tries |-> triesAfter, pc |-> "sleep"]
            /\ UNCHANGED passes
       ELSE /\ passes' = [passes EXCEPT ![o].pc = "done"]
            /\ UNCHANGED main

\* newMarkets after the scan, at t, of what the catalogue request was
\* answered with: the expected events where the array lists them, as the
\* scan takes them.
catalogued(answer, t) ==
    [a \in ASSETS |-> [tf \in TIMEFRAMES |->
        IF answer = "listed"
        THEN listedOf(generateExpectedSlug(a, tf, t, hourCycle),
                      parseSlug(generateExpectedSlug(a, tf, t, hourCycle), a, t, hourCycle, localTZ),
                      a, t, hourCycle)
        ELSE noMarket]]

\* The catalogue request with newMarkets taken for MARKETS before the scan: a
\* request that fails leaves every slot null.
RefreshScanClearing(o, answer) ==
    /\ refreshes[o].pc = "catalogue"
    /\ IF answer \notin {"error", "throwing"}
       THEN /\ refreshes' = [refreshes EXCEPT ![o].pc = "slugs", ![o].now = clock,
                                            ![o].newMarkets = catalogued(answer, clock)]
            /\ UNCHANGED <<passes, main, MARKETS>>
       ELSE /\ MARKETS' = [a \in ASSETS |-> [tf \in TIMEFRAMES |-> noMarket]]
            /\ Return(o, MARKETS')
    /\ UNCHANGED <<clock, BUFFERS, spotFailures, switches, ACTIVE_BOUGIES, CSV>>
    /\ UNCHANGED resolverVars

\* The catalogue request of refreshMarkets comes back.  With an array of
\* events, now is sampled and the array scanned; the requests by expected slug
\* follow.  On an error, and when the scan throws on an event the array lists
\* (what the scan alone makes of it is then the RangeError), refreshMarkets
\* logs and returns.
RefreshScan(o, answer) ==
    /\ refreshes[o].pc = "catalogue"
    /\ IF /\ answer # "error"
          /\ answer = "throwing" =>
                listedOf(ThrowingSlug, parseSlug(ThrowingSlug, "BTC", clock, hourCycle, localTZ),
                         "BTC", clock, hourCycle) # rangeError
          /\ \A a \in ASSETS : \A tf \in TIMEFRAMES :
                catalogued(answer, clock)[a][tf] # rangeError
       THEN /\ refreshes' = [refreshes EXCEPT ![o].pc = "slugs", ![o].now = clock,
                                            ![o].newMarkets = catalogued(answer, clock)]
            /\ UNCHANGED <<passes, main>>
       ELSE Return(o, MARKETS)
    /\ UNCHANGED <<clock, MARKETS, BUFFERS, spotFailures, switches, ACTIVE_BOUGIES, CSV>>
    /\ UNCHANGED resolverVars

\* The slot of the i-th request by expected slug of a refresh over the assets
\* in this order: for (const asset of ASSETS) for (const tf of TIMEFRAMES).
slotOf(order, i) ==
    [asset |-> order[((i - 1) \div Len(TimeframeOrder)) + 1],
     tf    |-> TimeframeOrder[((i - 1) % Len(TimeframeOrder)) + 1]]

\* The request of the refresh whose locals are R is answered otherwise than
\* the one before it.
switched(R, answer) == R.i > 1 /\ answer # R.last

\* newMarkets of the refresh whose locals are R once the request it awaits is
\* answered.
answered(R, answer) ==
    [R.newMarkets EXCEPT ![slotOf(AssetOrder, R.i).asset][slotOf(AssetOrder, R.i).tf] =
        newMarket(answer, @,
                  generateExpectedSlug(slotOf(AssetOrder, R.i).asset, slotOf(AssetOrder, R.i).tf,
                                       R.now, hourCycle),
                  slotOf(AssetOrder, R.i).asset, slotOf(AssetOrder, R.i).tf, R.now)]

\* The request by expected slug that refreshMarkets awaits comes back
\* (response, then response.json(): nothing is read or written between the
\* two): the slot of the request is set in newMarkets, and the request of the
\* next slot is sent.  After the last one MARKETS is updated slot by slot and
\* refreshMarkets returns, without another await.
RefreshSlug(o, answer) ==
    /\ refreshes[o].pc = "slugs"
    /\ IF refreshes[o].i < Len(AssetOrder) * Len(TimeframeOrder)
       THEN /\ refreshes' = [refreshes EXCEPT ![o].i = @ + 1, ![o].last = answer,
                                              ![o].newMarkets = answered(refreshes[o], answer)]
            /\ UNCHANGED <<MARKETS, ACTIVE_BOUGIES, passes, main>>
       ELSE /\ MARKETS' =
                  [a \in ASSETS |-> [tf \in TIMEFRAMES |->
                      updateSlot(MARKETS[a][tf], answered(refreshes[o], answer)[a][tf])]]
            /\ ACTIVE_BOUGIES' =
                  [a \in ASSETS |-> [tf \in TIMEFRAMES |->
                      IF MARKETS'[a][tf] # MARKETS[a][tf] THEN MARKETS'[a][tf].timestamp
                      ELSE ACTIVE_BOUGIES[a][tf]]]
            /\ Return(o, MARKETS')
    /\ switches' = IF switched(refreshes[o], answer) /\ switches < MaxSwitches
                   THEN switches + 1 ELSE switches
    /\ UNCHANGED <<clock, BUFFERS, spotFailures, CSV>>
    /\ UNCHANGED resolverVars

\* The 2-second sleep of the startup loop ends: refreshMarkets is called again.
MainWake ==
    /\ main.pc = "sleep"
    /\ main' = [main EXCEPT !.pc = "retry"]
    /\ refreshes' = [refreshes EXCEPT ![0].pc = "catalogue"]
    /\ UNCHANGED <<clock, MARKETS, BUFFERS, passes, spotFailures, switches, ACTIVE_BOUGIES, CSV>>
    /\ UNCHANGED resolverVars

\* The 1-second timer calls collectData: now is sampled, the spot price of the
\* first asset is asked for.
PassStart(p) ==
    /\ main.pc = "running"
    /\ passes[p].pc = "idle"
    /\ \A q \in Passes : q < p => passes[q].pc # "idle"
    /\ passes' = [passes EXCEPT ![p] = [idlePass EXCEPT !.pc = "spot", !.now = clock]]
    /\ UNCHANGED <<clock, MARKETS, BUFFERS, refreshes, main, spotFailures, switches, ACTIVE_BOUGIES, CSV>>
    /\ UNCHANGED resolverVars

\* Steps 3 and on of collectData for the pass whose locals are P, with the
\* priceMap pm, sts being what the pass makes of every slot by now and thrown
\* the assets at which it throws: the rows up to there are pushed, and
\* refreshMarkets is called when a cached market was found inactive in step 1.
\* The locals are not read again.
Finish(p, P, pm, sts, thrown) ==
    /\ BUFFERS' = [a \in ASSETS |->
                      IF P.rows[a] # noRow
                         /\ \A j \in thrown : \E k \in 1..(j - 1) : AssetOrder[k] = a
                      THEN Append(BUFFERS[a], finalRow(P, a, pm, sts[a]))
                      ELSE BUFFERS[a]]
    /\ passes' = [passes EXCEPT ![p] = [idlePass EXCEPT !.pc = afterFill(P, thrown)]]
    /\ refreshes' = IF afterFill(P, thrown) = "refresh"
                    THEN [refreshes EXCEPT ![p].pc = "catalogue"]
                    ELSE refreshes

\* Step 3 for the pass whose locals are P.
Fill(p, P, pm, sts) == Finish(p, P, pm, sts, throwsAt(P, sts))

\* What follows step 1 of an asset in the pass whose locals are now P: the
\* next asset; the prices request when there is something to ask; step 3 at
\* once when not.
SpotDone(p, P) ==
    IF P.i < Len(AssetOrder)
    THEN /\ passes' = [passes EXCEPT ![p] = [P EXCEPT !.i = @ + 1]]
         /\ UNCHANGED <<BUFFERS, refreshes>>
    ELSE IF P.batchRequests # {}
    THEN /\ passes' = [passes EXCEPT ![p] = [P EXCEPT !.pc = "batch"]]
         /\ UNCHANGED <<BUFFERS, refreshes>>
    ELSE Fill(p, P, noPrices, [a \in ASSETS |-> statusesOf(P, a)])

\* Step 1 of collectData for asset a of a pass, st being what the pass makes
\* of its slots: an exception of parseSlug or isActiveMarket ends the call.
SpotStep(p, a, st) ==
    IF \E tf \in TIMEFRAMES : st[tf] = "throws"
    THEN /\ passes' = [passes EXCEPT ![p] = [idlePass EXCEPT !.pc = "done"]]
         /\ UNCHANGED <<BUFFERS, refreshes>>
    ELSE SpotDone(p, stepOne(passes[p], a, st))

\* getSpotPrice of the current asset of a pass comes back (ok: with a price):
\* step 1 of collectData for this asset, or on to the next one.
PassSpot(p, ok) ==
    /\ passes[p].pc = "spot"
    /\ IF ok
       THEN /\ SpotStep(p, AssetOrder[passes[p].i],
                        statusesOf(passes[p], AssetOrder[passes[p].i]))
            /\ UNCHANGED spotFailures
       ELSE /\ SpotDone(p, passes[p])
            /\ spotFailures' = IF spotFailures < MaxSpotFailures THEN spotFailures + 1
                               ELSE spotFailures
    /\ UNCHANGED <<clock, MARKETS, main, switches, ACTIVE_BOUGIES, CSV>>
    /\ UNCHANGED resolverVars

\* The prices request is answered: getCLOBPricesBatch builds its priceMap and
\* resolves with it.
PassPrices(p, answer) ==
    /\ passes[p].pc = "batch"
    /\ passes' = [passes EXCEPT ![p].pc = "prices",
                                ![p].priceMap = priceMapOf(answer, passes[p].batchRequests)]
    /\ UNCHANGED <<clock, MARKETS, BUFFERS, refreshes, main, spotFailures, switches, ACTIVE_BOUGIES, CSV>>
    /\ UNCHANGED resolverVars

\* collectData resumes with the priceMap: steps 3 and on.
PassFill(p) ==
    /\ passes[p].pc = "prices"
    /\ Fill(p, passes[p], passes[p].priceMap, [a \in ASSETS |-> statusesOf(passes[p], a)])
    /\ UNCHANGED <<clock, MARKETS, main, spotFailures, switches, ACTIVE_BOUGIES, CSV>>
    /\ UNCHANGED resolverVars

\* The engine prints midnight as 00 and the process runs in UTC; the wall
\* clock of the logger stays within one evening, which both engines and both
\* zones read alike.
InitLogger ==
    /\ hourCycle = "h23"
    /\ localTZ = "UTC"
    /\ asset = "BTC"
    /\ timeframe = "m15"
    /\ now = ScenarioNow
    /\ pc = "logger"
    /\ slug = noSlug
    /\ parsed = null
    /\ active = noResult
    /\ later = now
    /\ laterSlug = noSlug
    /\ accepted = {}
    /\ decoded = {}
    /\ reparsed = null
    /\ activeLater = noResult
    /\ LoggerLoaded

\* No collectData call but the first has been made.
oneCall == \A p \in Passes : p > 1 => passes[p].pc = "idle"

\* The runs of the logger that are looked at: the requests of a refreshMarkets
\* call are answered alike, or, while no collectData call but the first is
\* made, otherwise MaxSwitches times.
NextLogger ==
    \/ Advance
    \/ MainWake
    \/ \E o \in Callers, answer \in CatalogueAnswers : RefreshScan(o, answer)
    \/ \E o \in Callers, answer \in RefreshAnswers :
          (switched(refreshes[o], answer) => (switches < MaxSwitches /\ oneCall))
          /\ RefreshSlug(o, answer)
    \/ \E p \in Passes : (p > 1 => switches = 0) /\ PassStart(p)
    \/ \E p \in Passes, ok \in BOOLEAN :
          (ok \/ spotFailures < MaxSpotFailures) /\ PassSpot(p, ok)
    \/ \E p \in Passes, answer \in PriceAnswers : PassPrices(p, answer)
    \/ \E p \in Passes : PassFill(p)

SpecLogger == InitLogger /\ [][NextLogger]_vars

\* The header line of a CSV file.
headerLine == [timestamp |-> InvalidDate, quotes |-> [tf \in TIMEFRAMES |-> emptyQuote]]

\* cleanValue(val): '' for a column that is undefined, null, '' or 'NaN'.
cleanValue(val) == IF val \in {empty, unset} THEN empty ELSE val

\* The line flushToCSV makes of a row; the quotes are hundredths.
csvLine(row) ==
    [timestamp |-> row.timestamp,
     quotes    |-> [tf \in TIMEFRAMES |->
                       [buy         |-> cleanValue(row.quotes[tf].buy),
                        sell        |-> cleanValue(row.quotes[tf].sell),
                        spread_up   |-> cleanValue(row.quotes[tf].spread_up),
                        spread_down |-> cleanValue(row.quotes[tf].spread_down)]]]

\* The lines flushToCSV makes of a buffer, in the order of the buffer.
csvLines(buffer) == [k \in 1..Len(buffer) |-> csvLine(buffer[k])]

\* flushToCSV without its last statement: the buffer is written and kept.
flushedKeeping(file, buffer) ==
    [file   |-> IF buffer = <<>> THEN file
                ELSE (IF file = <<>> THEN <<headerLine>> ELSE file) \o csvLines(buffer),
     buffer |-> buffer]

\* flushToCSV for one asset: nothing for an empty buffer; otherwise the header
\* when the file does not exist, then the lines of the buffer, appended to the
\* file, and the buffer emptied.
flushed(file, buffer) ==
    [file   |-> IF buffer = <<>> THEN file
                ELSE (IF file = <<>> THEN <<headerLine>> ELSE file) \o csvLines(buffer),
     buffer |-> <<>>]

\* The 60-second timer calls flushToCSV, which runs without an await.
Flush ==
    /\ main.pc = "running"
    /\ CSV' = [a \in ASSETS |-> flushed(CSV[a], BUFFERS[a]).file]
    /\ BUFFERS' = [a \in ASSETS |-> flushed(CSV[a], BUFFERS[a]).buffer]
    /\ UNCHANGED <<clock, MARKETS, passes, refreshes, main, spotFailures, switches, ACTIVE_BOUGIES>>
    /\ UNCHANGED resolverVars

\* The logger with its flush timer.
NextFlush ==
    \/ NextLogger
    \/ Flush

SpecFlush == InitLogger /\ [][NextFlush]_vars

\* The startup of the logger: main() up to the moment it sets its timers.
NextStartup ==
    \/ Advance
    \/ MainWake
    \/ \E answer \in CatalogueAnswers : RefreshScan(0, answer)
    \/ \E answer \in RefreshAnswers :
          (switched(refreshes[0], answer) => switches < MaxSwitches) /\ RefreshSlug(0, answer)

\* What main() does next: its sleep ends, a request of its refreshMarkets call
\* is answered or fails.
StartupStep ==
    \/ MainWake
    \/ RefreshScan(0, "error")
    \/ RefreshScan(0, "throwing")
    \/ RefreshScan(0, "none")
    \/ RefreshScan(0, "listed")
    \/ RefreshSlug(0, "none")
    \/ RefreshSlug(0, "served")

\* The logger while the spot price API is unreachable: every getSpotPrice
\* call comes back without a price.
NextOutage ==
    \/ NextStartup
    \/ \E p \in Passes : PassStart(p)
    \/ \E p \in Passes : PassSpot(p, FALSE)

SpecOutage == InitLogger /\ [][NextOutage]_vars

\* A collectData call has returned: the timer goes on calling collectData.
PassEnd(p) ==
    /\ passes[p].pc = "done"
    /\ passes' = [passes EXCEPT ![p] = idlePass]
    /\ UNCHANGED <<clock, MARKETS, BUFFERS, refreshes, main, spotFailures, switches, ACTIVE_BOUGIES, CSV>>
    /\ UNCHANGED resolverVars

\* The logger while the API serves no event with token ids: the catalogue
\* lists events without them, or nothing.  The spot price API answers until
\* MaxRows rows are buffered and fails from then on.
NextUnserved ==
    \/ Advance
    \/ MainWake
    \/ \E answer \in CatalogueAnswers : RefreshScan(0, answer)
    \/ RefreshSlug(0, "none")
    \/ \E p \in Passes : PassStart(p)
    \/ \E p \in Passes, ok \in BOOLEAN :
          (ok => \A a \in ASSETS : Len(BUFFERS[a]) < MaxRows) /\ PassSpot(p, ok)
    \/ \E p \in Passes : PassEnd(p)

\* What the logger does next in that situation: a step of main, or of a
\* collectData call.
UnservedStep ==
    \/ MainWake
    \/ RefreshScan(0, "error")
    \/ RefreshScan(0, "throwing")
    \/ RefreshScan(0, "none")
    \/ RefreshScan(0, "listed")
    \/ RefreshSlug(0, "none")
    \/ \E p \in Passes : PassStart(p)
    \/ \E p \in Passes, ok \in BOOLEAN :
          (ok => \A a \in ASSETS : Len(BUFFERS[a]) < MaxRows) /\ PassSpot(p, ok)
    \/ \E p \in Passes : PassEnd(p)

\* With its scheduling: timers fire, requests are answered or fail.
SpecUnserved == InitLogger /\ [][NextUnserved]_vars /\ WF_vars(UnservedStep)

\* The startup with its scheduling: a timer that is set fires, a request that
\* was sent is answered or fails.
SpecStartup == InitLogger /\ [][NextStartup]_vars /\ WF_vars(StartupStep)

----------------------------------------------------------------------------
(* The earlier logger, src/cotationsScrapper/polymarket_logger.js.  Its      *)
(* isActiveMarket, step 1 of collectData, getCLOBPricesBatch, flushToCSV    *)
(* and main are statement for statement those of the logger above; its      *)
(* ASSETS, parseSlug, generateExpectedSlug, refreshMarkets and step 3 of    *)
(* collectData are its own.                                                 *)

AssetsScrapper == {"BTC", "ETH", "SOL", "XRP"}

\* collectData calls of the earlier logger that the 1-second timer starts.
MaxPassesScrapper == 1

PassesScrapper == 1..MaxPassesScrapper

\* The callers of refreshMarkets in the earlier logger.
CallersScrapper == {0} \cup PassesScrapper

AssetOrderScrapper == <<"BTC", "ETH", "SOL", "XRP">>

\* The numbers the pattern of parseSlug takes from
\* now.toLocaleString('en-US', { timeZone: 'America/New_York' }): the civil
\* reading of the instant with the hour on the 12-hour clock.
toLocaleString(t) ==
    LET p == formatToParts(t, "h23")
    IN  [p EXCEPT !.hour = ((p.hour + 11) % 12) + 1]

\* The year the text branches of parseSlug give a month, day and hour, with
\* nowParts the numbers of toLocaleString: the next year when the candidate,
\* read in the zone of the process, is before those numbers read in the same
\* zone.
inferYearScrapper(mo, d, h, nowParts, tz) ==
    IF LocalDate(nowParts.year, mo, d, h, tz)
         < LocalDate(nowParts.year, nowParts.month, nowParts.day, nowParts.hour, tz)
           + nowParts.minute * 60 + nowParts.second
    THEN nowParts.year + 1
    ELSE nowParts.year

\* The unix branch of parseSlug: the number of the slug is the instant.
parseUnixScrapper(s) ==
    [timeframe |-> tagTimeframe(s.tag),
     timestamp |-> IF s.g = "unix" THEN s.n ELSE s.year]

\* The ISO string of a text branch, read with the offset in force at the
\* civil time read in the zone of the process.
dateOfScrapper(tf, year, mo, d, h, tz) ==
    [timeframe |-> tf,
     timestamp |-> DateFromISO(year, mo, d, h, 0, IsEDT(LocalDate(year, mo, d, h, tz)))]

\* The daily-text (h = 0) and hourly-text branches of parseSlug.
parseTextScrapper(tf, mo, d, h, wall, tz) ==
    IF mo = 0 THEN null
    ELSE IF mo \notin 1..12 THEN rangeError
    ELSE dateOfScrapper(tf, inferYearScrapper(mo, d, h, toLocaleString(wall), tz), mo, d, h, tz)

\* parseSlug(slug, asset) of the earlier logger.
parseSlugScrapper(s, a, wall, tz) ==
    IF unixMatch(s, a) THEN parseUnixScrapper(s)
    ELSE IF dailyMatch(s, a) THEN parseTextScrapper("daily", monthNum(s.month), s.day, 0, wall, tz)
    ELSE IF h1Match(s, a)
    THEN parseTextScrapper("h1", monthNum(s.month), s.day, hourNum(s.hour12, s.ampm), wall, tz)
    ELSE IF legacyMatch(s, a) THEN parseLegacy(s, tz)
    ELSE null

\* The day, hour and minute generateExpectedSlug aims at: for m15 the next
\* quarter of the hour, ceilMi being Math.ceil(nowMi / 15) * 15.
targetScrapper(tf, nowParts, ceilMi) ==
    IF tf = "m15" THEN
        IF ceilMi # 60 THEN [day |-> nowParts.day, hour |-> nowParts.hour, minute |-> ceilMi]
        ELSE IF (nowParts.hour + 1) % 24 = 0
        THEN [day |-> nowParts.day + 1, hour |-> 0, minute |-> 0]
        ELSE [day |-> nowParts.day, hour |-> (nowParts.hour + 1) % 24, minute |-> 0]
    ELSE IF tf = "h1" THEN [day |-> nowParts.day, hour |-> nowParts.hour, minute |-> 0]
    ELSE IF nowParts.hour >= 12 THEN [day |-> nowParts.day + 1, hour |-> 0, minute |-> 0]
    ELSE [day |-> nowParts.day, hour |-> 0, minute |-> 0]

\* The slug generateExpectedSlug makes of its target: for m15 the civil time
\* of the target given to Date.UTC.
slugOfScrapper(a, tf, nowParts, target) ==
    IF tf = "m15" THEN
        UnixSlug(shortName(a), "15m",
                 DateUTC(nowParts.year, nowParts.month, target.day, target.hour, target.minute))
    ELSE IF tf = "h1" THEN
        HourlySlug(fullNames(a), MONTHS[nowParts.month], target.day,
                   IF target.hour = 0 THEN 12
                   ELSE IF target.hour > 12 THEN target.hour - 12 ELSE target.hour,
                   IF target.hour < 12 THEN "am" ELSE "pm")
    ELSE DailySlug(fullNames(a), MONTHS[nowParts.month], target.day)

\* generateExpectedSlug(asset, timeframe, now) of the earlier logger.
generateExpectedSlugScrapper(a, tf, t, hc) ==
    slugOfScrapper(a, tf, formatToParts(t, hc),
                   targetScrapper(tf, formatToParts(t, hc),
                                  ((formatToParts(t, hc).minute + 14) \div 15) * 15))

\* The market refreshMarkets takes from the event served for the expected
\* slug s, whose descriptor is p: none when the slug does not parse.
servedOfScrapper(s, p) ==
    IF p = null \/ p = rangeError THEN noMarket
    ELSE [slug |-> s, clobTokenIds |-> TokenIds(s), timestamp |-> p.timestamp]

\* The market the catalogue scan of refreshMarkets takes from an event of
\* slug s that has no token ids: none unless active at the now of the refresh.
\* When parseSlug or isActiveMarket throws, the RangeError leaves the scan.
listedOfScrapper(s, p, a, t, hc) ==
    IF p = null THEN noMarket
    ELSE IF p = rangeError THEN rangeError
    ELSE scanned(s, p, isActiveMarket(p, a, p.timeframe, t, hc))

\* newMarkets[a][tf] at the end of a refresh that sampled t and whose scan
\* got through the catalogue.  The slot has no token ids after the scan, so the
\* event is asked for by its expected slug s: served, at the wall clock, with
\* its token ids, it is taken; else the slot keeps what the scan, at t, took
\* from the catalogue (listed), or null.
newMarketScrapper(answer, listed, s, a, tf, t) ==
    IF answer = "served" /\ servedOfScrapper(s, parseSlugScrapper(s, a, clock, localTZ)) # noMarket
    THEN servedOfScrapper(s, parseSlugScrapper(s, a, clock, localTZ))
    ELSE listed

\* needAll() of main
needAllScrapper(markets) ==
    \A a \in AssetsScrapper : \A tf \in TIMEFRAMES : hasTokens(markets[a][tf])

\* A collectData call not yet made.
idlePassScrapper ==
    [pc |-> "idle", now |-> InvalidDate, i |-> 1, needRefresh |-> FALSE,
     rows |-> [a \in AssetsScrapper |-> noRow], batchRequests |-> {}, priceMap |-> noPrices]

\* What the pass P of collectData makes of each slot of an asset: the slug is
\* parsed at the wall clock, the descriptor judged at the now of the pass.
statusesOfScrapper(P, a) ==
    [tf \in TIMEFRAMES |->
        IF ~hasTokens(MARKETS[a][tf]) THEN "absent"
        ELSE verdict(parseSlugScrapper(MARKETS[a][tf].slug, a, clock, localTZ),
                     a, tf, P.now, hourCycle)]

\* Step 3: the four columns of a slot from the four prices of its market.
buildQuoteScrapper(upBuy, upSell, downBuy, downSell) ==
    IF upBuy # noPrice /\ downSell # noPrice
    THEN [buy         |-> toFixed2(upBuy),
          sell        |-> toFixed2(downSell),
          spread_up   |-> IF upSell # noPrice THEN spreadFixed2(upSell, upBuy) ELSE empty,
          spread_down |-> IF downBuy # noPrice THEN spreadFixed2(downSell, downBuy) ELSE empty]
    ELSE emptyQuote

quoteOfScrapper(pm, m) ==
    buildQuoteScrapper(lookupPrice(pm, m.clobTokenIds[1], "BUY"),
                       lookupPrice(pm, m.clobTokenIds[1], "SELL"),
                       lookupPrice(pm, m.clobTokenIds[2], "BUY"),
                       lookupPrice(pm, m.clobTokenIds[2], "SELL"))

\* Step 3 of collectData for an asset, st being what the pass makes of its
\* slots by now: the row as it stands at the end of the loop on the timeframes.
finalRowScrapper(P, a, pm, st) ==
    [timestamp |-> P.rows[a].timestamp,
     quotes    |-> [tf \in TIMEFRAMES |->
                       IF st[tf] = "active" THEN quoteOfScrapper(pm, MARKETS[a][tf])
                       ELSE P.rows[a].quotes[tf]]]

\* Every row with a spot price is pushed.
hasAnyValidQuotesAlways(P, a, pm, st) == TRUE

\* row.hasAnyValidQuotes at the end of the loop on the timeframes: some active
\* market had its two prices in the priceMap.
hasAnyValidQuotes(P, a, pm, st) ==
    \E tf \in TIMEFRAMES :
        /\ st[tf] = "active"
        /\ lookupPrice(pm, MARKETS[a][tf].clobTokenIds[1], "BUY") # noPrice
        /\ lookupPrice(pm, MARKETS[a][tf].clobTokenIds[2], "SELL") # noPrice

\* The assets, by their place in ASSETS, at which step 3 throws.
throwsAtScrapper(P, sts) ==
    {k \in 1..Len(AssetOrderScrapper) :
        /\ P.rows[AssetOrderScrapper[k]] # noRow
        /\ \E tf \in TIMEFRAMES : sts[AssetOrderScrapper[k]][tf] = "throws"}

\* refreshMarkets returns to its caller.
ReturnScrapper(o, markets) ==
    /\ refreshes' = [refreshes EXCEPT ![o] = idleRefresh(AssetsScrapper)]
    /\ IF o = 0
       THEN /\ main' = IF needAllScrapper(markets) \/ triesAfter >= MaxTries
                       THEN mainReturned
                       ELSE [tries |-> triesAfter, pc |-> "sleep"]
            /\ UNCHANGED passes
       ELSE /\ passes' = [passes EXCEPT ![o].pc = "done"]
            /\ UNCHANGED main

\* newMarkets after the scan, at t, of what the catalogue request was
\* answered with.
cataloguedScrapper(answer, t) ==
    [a \in AssetsScrapper |-> [tf \in TIMEFRAMES |->
        IF answer = "listed"
        THEN listedOfScrapper(generateExpectedSlugScrapper(a, tf, t, hourCycle),
                              parseSlugScrapper(generateExpectedSlugScrapper(a, tf, t, hourCycle),
                                                a, t, localTZ),
                              a, t, hourCycle)
        ELSE noMarket]]

\* The catalogue request of refreshMarkets comes back.  With an array of
\* events, now is sampled and the array scanned; the requests by expected slug
\* follow.  On an error, and when the scan throws on an event the array lists
\* (what the scan alone makes of it is then the RangeError), refreshMarkets
\* logs and returns.
RefreshScanScrapper(o, answer) ==
    /\ refreshes[o].pc = "catalogue"
    /\ IF /\ answer # "error"
          /\ answer = "throwing" =>
                listedOfScrapper(ThrowingSlug, parseSlugScrapper(ThrowingSlug, "BTC", clock, localTZ),
                                 "BTC", clock, hourCycle) # rangeError
          /\ \A a \in AssetsScrapper : \A tf \in TIMEFRAMES :
                cataloguedScrapper(answer, clock)[a][tf] # rangeError
       THEN /\ refreshes' = [refreshes EXCEPT ![o].pc = "slugs", ![o].now = clock,
                                            ![o].newMarkets = cataloguedScrapper(answer, clock)]
            /\ UNCHANGED <<passes, main>>
       ELSE ReturnScrapper(o, MARKETS)
    /\ UNCHANGED <<clock, MARKETS, BUFFERS, spotFailures, switches, ACTIVE_BOUGIES, CSV>>
    /\ UNCHANGED resolverVars

\* newMarkets of the refresh whose locals are R once the request it awaits is
\* answered.  The request is sent for a slot that is null or without token
\* ids, which every slot is after the scan of a catalogue without token ids.
answeredScrapper(R, answer) ==
    [R.newMarkets EXCEPT ![slotOf(AssetOrderScrapper, R.i).asset][slotOf(AssetOrderScrapper, R.i).tf] =
        newMarketScrapper(answer, @,
                          generateExpectedSlugScrapper(slotOf(AssetOrderScrapper, R.i).asset,
                                                       slotOf(AssetOrderScrapper, R.i).tf,
                                                       R.now, hourCycle),
                          slotOf(AssetOrderScrapper, R.i).asset,
                          slotOf(AssetOrderScrapper, R.i).tf, R.now)]

\* The request by expected slug that refreshMarkets awaits comes back: the
\* slot of the request is set in newMarkets, and the request of the next slot
\* is sent.  After the last one MARKETS is updated slot by slot and
\* refreshMarkets returns.
RefreshSlugScrapper(o, answer) ==
    /\ refreshes[o].pc = "slugs"
    /\ IF refreshes[o].i < Len(AssetOrderScrapper) * Len(TimeframeOrder)
       THEN /\ refreshes' = [refreshes EXCEPT ![o].i = @ + 1, ![o].last = answer,
                                              ![o].newMarkets = answeredScrapper(refreshes[o], answer)]
            /\ UNCHANGED <<MARKETS, ACTIVE_BOUGIES, passes, main>>
       ELSE /\ MARKETS' =
                  [a \in AssetsScrapper |-> [tf \in TIMEFRAMES |->
                      updateSlot(MARKETS[a][tf], answeredScrapper(refreshes[o], answer)[a][tf])]]
            /\ ACTIVE_BOUGIES' =
                  [a \in AssetsScrapper |-> [tf \in TIMEFRAMES |->
                      IF MARKETS'[a][tf] # MARKETS[a][tf] THEN MARKETS'[a][tf].timestamp
                      ELSE ACTIVE_BOUGIES[a][tf]]]
            /\ ReturnScrapper(o, MARKETS')
    /\ switches' = IF switched(refreshes[o], answer) /\ switches < MaxSwitches
                   THEN switches + 1 ELSE switches
    /\ UNCHANGED <<clock, BUFFERS, spotFailures, CSV>>
    /\ UNCHANGED resolverVars

\* The 1-second timer calls collectData.
PassStartScrapper(p) ==
    /\ main.pc = "running"
    /\ passes[p].pc = "idle"
    /\ \A q \in PassesScrapper : q < p => passes[q].pc # "idle"
    /\ passes' = [passes EXCEPT ![p] = [idlePassScrapper EXCEPT !.pc = "spot", !.now = clock]]
    /\ UNCHANGED <<clock, MARKETS, BUFFERS, refreshes, main, spotFailures, switches, ACTIVE_BOUGIES, CSV>>
    /\ UNCHANGED resolverVars

\* Steps 3 and on of collectData for the pass whose locals are P, with the
\* priceMap pm: a row is pushed when hasAnyValidQuotes is set, up to the asset
\* at which the step throws, and refreshMarkets is called when a cached market
\* was found inactive in step 1.
FinishScrapper(p, P, pm, sts, thrown) ==
    /\ BUFFERS' = [a \in AssetsScrapper |->
                      IF /\ P.rows[a] # noRow
                         /\ \A j \in thrown : \E k \in 1..(j - 1) : AssetOrderScrapper[k] = a
                         /\ hasAnyValidQuotes(P, a, pm, sts[a])
                      THEN Append(BUFFERS[a], finalRowScrapper(P, a, pm, sts[a]))
                      ELSE BUFFERS[a]]
    /\ passes' = [passes EXCEPT ![p] = [idlePassScrapper EXCEPT !.pc = afterFill(P, thrown)]]
    /\ refreshes' = IF afterFill(P, thrown) = "refresh"
                    THEN [refreshes EXCEPT ![p].pc = "catalogue"]
                    ELSE refreshes

\* Step 3 for the pass whose locals are P.
FillScrapper(p, P, pm, sts) == FinishScrapper(p, P, pm, sts, throwsAtScrapper(P, sts))

\* What follows step 1 of an asset in the pass whose locals are now P.
SpotDoneScrapper(p, P) ==
    IF P.i < Len(AssetOrderScrapper)
    THEN /\ passes' = [passes EXCEPT ![p] = [P EXCEPT !.i = @ + 1]]
         /\ UNCHANGED <<BUFFERS, refreshes>>
    ELSE IF P.batchRequests # {}
    THEN /\ passes' = [passes EXCEPT ![p] = [P EXCEPT !.pc = "batch"]]
         /\ UNCHANGED <<BUFFERS, refreshes>>
    ELSE FillScrapper(p, P, noPrices, [a \in AssetsScrapper |-> statusesOfScrapper(P, a)])

\* Step 1 of collectData for asset a of a pass, st being what the pass makes
\* of its slots: an exception of parseSlug or isActiveMarket ends the call.
SpotStepScrapper(p, a, st) ==
    IF \E tf \in TIMEFRAMES : st[tf] = "throws"
    THEN /\ passes' = [passes EXCEPT ![p] = [idlePassScrapper EXCEPT !.pc = "done"]]
         /\ UNCHANGED <<BUFFERS, refreshes>>
    ELSE SpotDoneScrapper(p, stepOne(passes[p], a, st))

\* getSpotPrice of the current asset of a pass comes back (ok: with a price):
\* step 1 of collectData for this asset, or on to the next one.
PassSpotScrapper(p, ok) ==
    /\ passes[p].pc = "spot"
    /\ IF ok
       THEN /\ SpotStepScrapper(p, AssetOrderScrapper[passes[p].i],
                                statusesOfScrapper(passes[p], AssetOrderScrapper[passes[p].i]))
            /\ UNCHANGED spotFailures
       ELSE /\ SpotDoneScrapper(p, passes[p])
            /\ spotFailures' = spotFailures + 1
    /\ UNCHANGED <<clock, MARKETS, main, switches, ACTIVE_BOUGIES, CSV>>
    /\ UNCHANGED resolverVars

\* collectData resumes with the priceMap: steps 3 and on.
PassFillScrapper(p) ==
    /\ passes[p].pc = "prices"
    /\ FillScrapper(p, passes[p], passes[p].priceMap,
                    [a \in AssetsScrapper |-> statusesOfScrapper(passes[p], a)])
    /\ UNCHANGED <<clock, MARKETS, main, spotFailures, switches, ACTIVE_BOUGIES, CSV>>
    /\ UNCHANGED resolverVars

\* The earlier logger once the module is loaded and main() has run up to the
\* catalogue request of its initial refreshMarkets, in the engine and zone of
\* InitLogger.
InitScrapper ==
    /\ hourCycle = "h23"
    /\ localTZ = "UTC"
    /\ asset = "BTC"
    /\ timeframe = "m15"
    /\ now = ScenarioNow
    /\ pc = "logger"
    /\ slug = noSlug
    /\ parsed = null
    /\ active = noResult
    /\ later = now
    /\ laterSlug = noSlug
    /\ accepted = {}
    /\ decoded = {}
    /\ reparsed = null
    /\ activeLater = noResult
    /\ clock = ScenarioNow
    /\ MARKETS = [a \in AssetsScrapper |-> [tf \in TIMEFRAMES |-> noMarket]]
    /\ BUFFERS = [a \in AssetsScrapper |-> <<>>]
    /\ passes = [p \in PassesScrapper |-> idlePassScrapper]
    /\ refreshes = [o \in CallersScrapper |-> IF o = 0
                                       THEN [idleRefresh(AssetsScrapper) EXCEPT !.pc = "catalogue"]
                                       ELSE idleRefresh(AssetsScrapper)]
    /\ main = [pc |-> "initial", tries |-> 0]
    /\ spotFailures = 0
    /\ switches = 0
    /\ ACTIVE_BOUGIES = [a \in AssetsScrapper |-> [tf \in TIMEFRAMES |-> InvalidDate]]
    /\ CSV = [a \in AssetsScrapper |-> <<>>]

\* What the prices request of the earlier logger is answered with.
PriceAnswersScrapper == {"none", "requested", "upOnly"}

\* The 60-second timer of the earlier logger calls flushToCSV, which runs
\* without an await: the rows of every asset are appended to its file and its
\* buffer is emptied.
FlushScrapper ==
    /\ main.pc = "running"
    /\ CSV' = [a \in AssetsScrapper |-> flushed(CSV[a], BUFFERS[a]).file]
    /\ BUFFERS' = [a \in AssetsScrapper |-> flushed(CSV[a], BUFFERS[a]).buffer]
    /\ UNCHANGED <<clock, MARKETS, passes, refreshes, main, spotFailures, switches, ACTIVE_BOUGIES>>
    /\ UNCHANGED resolverVars

NextScrapper ==
    \/ Advance
    \/ MainWake
    \/ \E o \in CallersScrapper, answer \in CatalogueAnswers : RefreshScanScrapper(o, answer)
    \/ \E o \in CallersScrapper, answer \in RefreshAnswers :
          (switched(refreshes[o], answer) => switches < MaxSwitches)
          /\ RefreshSlugScrapper(o, answer)
    \/ \E p \in PassesScrapper : PassStartScrapper(p)
    \/ \E p \in PassesScrapper, ok \in BOOLEAN :
          (ok \/ spotFailures < MaxSpotFailures) /\ PassSpotScrapper(p, ok)
    \/ \E p \in PassesScrapper, answer \in PriceAnswersScrapper : PassPrices(p, answer)
    \/ \E p \in PassesScrapper : PassFillScrapper(p)
    \/ FlushScrapper

SpecScrapper == InitScrapper /\ [][NextScrapper]_vars

\* A collectData call has returned: the timer goes on calling collectData.
PassEndScrapper(p) ==
    /\ passes[p].pc = "done"
    /\ passes' = [passes EXCEPT ![p] = idlePassScrapper]
    /\ UNCHANGED <<clock, MARKETS, BUFFERS, refreshes, main, spotFailures, switches, ACTIVE_BOUGIES, CSV>>
    /\ UNCHANGED resolverVars

\* The earlier logger while the API serves no event with token ids: the
\* catalogue lists events without them, or nothing.
NextScrapperUnserved ==
    \/ Advance
    \/ MainWake
    \/ \E answer \in CatalogueAnswers : RefreshScanScrapper(0, answer)
    \/ RefreshSlugScrapper(0, "none")
    \/ \E p \in PassesScrapper : PassStartScrapper(p)
    \/ \E p \in PassesScrapper, ok \in BOOLEAN :
          (ok \/ spotFailures < MaxSpotFailures) /\ PassSpotScrapper(p, ok)
    \/ \E p \in PassesScrapper : PassEndScrapper(p)

\* What the earlier logger does next in that situation: a step of main, or
\* of a collectData call.
ScrapperUnservedStep ==
    \/ MainWake
    \/ RefreshScanScrapper(0, "error")
    \/ RefreshScanScrapper(0, "throwing")
    \/ RefreshScanScrapper(0, "none")
    \/ RefreshScanScrapper(0, "listed")
    \/ RefreshSlugScrapper(0, "none")
    \/ \E p \in PassesScrapper : PassStartScrapper(p)
    \/ \E p \in PassesScrapper : PassSpotScrapper(p, TRUE)
    \/ \E p \in PassesScrapper : PassEndScrapper(p)

\* With its scheduling: timers fire, requests are answered or fail.
SpecScrapperUnserved ==
    InitScrapper /\ [][NextScrapperUnserved]_vars /\ WF_vars(ScrapperUnservedStep)

----------------------------------------------------------------------------
(* Reference notions the claims are stated with *)

\* The US Eastern civil reading of instant t (hours 0..23).
Civil(t) == formatToParts(t, "h23")

CivilDate(t) == <<Civil(t).year, Civil(t).month, Civil(t).day>>

\* The instants whose US Eastern civil reading is y-mo-d h:mi:00.
InstantsOfCivil(y, mo, d, h, mi) ==
    {t \in {DateUTC(y, mo, d, h, mi) + 4 * Hour, DateUTC(y, mo, d, h, mi) + 5 * Hour} :
        Civil(t) = [year |-> y, month |-> mo, day |-> d, hour |-> h, minute |-> mi,
                    second |-> 0]}

\* The effective trading date of instant t: its civil date before 12:00, the
\* next calendar day from 12:00 on.
TradingDate(t) ==
    IF Civil(t).hour < 12 THEN CivilDate(t) ELSE CivilDate(ETMidnight(t) + 36 * Hour)

\* The civil date of t is a date on which the UTC offset changes.
IsTransitionDate(t) == ETOffset(ETMidnight(t)) # ETOffset(ETMidnight(t) + 36 * Hour)

IsLastDayOfMonth(t) == Civil(t).day = DaysInMonth(Civil(t).year, Civil(t).month)

\* Two instants lie in the same bucket of cadence tf.
SameBucket(tf, t1, t2) ==
    IF tf = "daily" THEN TradingDate(t1) = TradingDate(t2)
    ELSE t1 \div Duration(tf) = t2 \div Duration(tf)

----------------------------------------------------------------------------
(* Claims *)

\* C1: the window the encoder predicts for an instant contains that instant:
\* isActiveMarket(parseSlug(generateExpectedSlug(asset, cadence, now), asset),
\* asset, cadence, now) returns true, for every asset, cadence and instant.
C1_PredictedWindowIsActive ==
    pc = "checked" => (~active.threw /\ active.matches)

\* C2: for cadence m15, decoding the predicted slug yields timeframe m15 and
\* the instant whose civil reading is now's civil date and hour with the
\* minute floored to a multiple of 15 and the second 0.
C2_M15RoundTripTruncates ==
    (pc = "parsed" /\ timeframe = "m15") =>
        /\ parsed.timeframe = "m15"
        /\ parsed.timestamp # InvalidDate
        /\ Civil(parsed.timestamp) =
              [Civil(now) EXCEPT !.minute = (@ \div 15) * 15, !.second = 0]

\* C3: from civil 12:00 on the last day of a month, the daily slug names day 1
\* of the following month and decodes to 00:00 civil of that date (in the next
\* year on December 31).
C3_DailyMonthEndRollover ==
    (pc = "parsed" /\ timeframe = "daily" /\ Civil(now).hour >= 12 /\ IsLastDayOfMonth(now)) =>
        LET next == ETMidnight(ETMidnight(now) + 36 * Hour)
        IN  /\ slug = DailySlug(fullNames(asset), MONTHS[Civil(next).month], 1)
            /\ parsed.timestamp = next

\* C4: for cadence daily, isActiveMarket accepts a descriptor exactly when its
\* civil calendar date is the effective trading date of now.
C4_DailyActiveIffTradingDate ==
    (pc = "scanned" /\ timeframe = "daily") =>
        \A w \in Windows("daily", now) :
            (w \in accepted) <=> (CivilDate(w) = TradingDate(now))

\* C5: on a date that is not the last of its month, the daily slug names now's
\* own civil month and day while the civil hour is below 12, and the next day
\* of the same month from 12:00 on; the label does not change at midnight.
C5_DailyLabelFlipsAtNoon ==
    (pc = "slug" /\ timeframe = "daily" /\ ~IsLastDayOfMonth(now)) =>
        slug = DailySlug(fullNames(asset), MONTHS[Civil(now).month],
                         IF Civil(now).hour < 12 THEN Civil(now).day ELSE Civil(now).day + 1)

\* C6: for cadences m15 and h1, exactly one bucket-aligned window is accepted
\* by isActiveMarket at any instant now.
C6_ExactlyOneActiveWindow ==
    (pc = "scanned" /\ timeframe \in {"m15", "h1"}) => Cardinality(accepted) = 1

\* C7: two instants more than one bucket duration apart get different slugs.
C7_DistinctBucketsDistinctSlugs ==
    (pc = "ticked" /\ later - now > Duration(timeframe)) => slug # laterSlug

\* C8: two instants in the same bucket (the same quarter hour, the same hour,
\* the same noon-to-noon trading day) get the same slug.
C8_SameBucketSameSlug ==
    (pc = "ticked" /\ SameBucket(timeframe, now, later)) => slug = laterSlug

\* C9: an m15 or h1 window that starts at 01:00 civil on a spring-forward or
\* fall-back date is active, once decoded, exactly at the instants of
\* [start, start + duration).
C9_TransitionDayWindowIsHalfOpenInterval ==
    (pc = "scanned" /\ timeframe \in {"m15", "h1"}) =>
        \A w \in Windows(timeframe, now) :
            (IsTransitionDate(w) /\ Civil(w).hour = 1 /\ Civil(w).minute = 0) =>
                ((w \in decoded) <=> (w <= now /\ now < w + Duration(timeframe)))

\* C10: the unix seconds the m15 slug embeds for the target civil time c, when
\* c exists and is unambiguous, denote the instant whose civil reading is c.
C10_EmbeddedInstantReadsAsTarget ==
    (pc = "slug" /\ timeframe = "m15") =>
        LET c == [Civil(now) EXCEPT !.minute = (@ \div 15) * 15, !.second = 0]
        IN  Cardinality(InstantsOfCivil(c.year, c.month, c.day, c.hour, c.minute)) = 1 =>
                (slug.n # InvalidDate /\ Civil(slug.n) = c)

\* C11: for every identifier <assetShort>-updown-<15m|1h|1d>-<n> of the epoch
\* grammar, parseSlug returns the cadence of the tag and the instant exactly n
\* seconds after the Unix epoch, with no adjustment that depends on a time zone.
C11_EpochSlugDecodesToItsInstant ==
    (pc = "decoded" /\ slug.g = "unix" /\ slug.asset = shortName(asset)
        /\ tagTimeframe(slug.tag) # "null")
    => parsed = [timeframe |-> tagTimeframe(slug.tag), timestamp |-> slug.n]

\* C12: for every identifier <assetShort>-updown-<15m|1h|1d>-YYYY-MM-DD[-HH[-MI]]
\* of the legacy numeric grammar, parseSlug returns a window of the cadence of
\* the tag whose start is the encoded US Eastern civil instant minus the
\* duration of the cadence.
C12_LegacySlugDecodesToEndMinusDuration ==
    (pc = "decoded" /\ legacyMatch(slug, asset))
    => /\ parsed.timeframe = tagTimeframe(slug.tag)
       /\ \E t \in InstantsOfCivil(slug.year, slug.month, slug.day,
                                   IF slug.hour = absent THEN 0 ELSE slug.hour,
                                   IF slug.minute = absent THEN 0 ELSE slug.minute) :
              parsed.timestamp = t - Duration(parsed.timeframe)

\* C13: parseSlug tries the grammars in the order epoch, daily-text,
\* hourly-text, legacy and returns the result of the first that matches: an
\* identifier that matches both the epoch pattern and a legacy pattern is
\* decoded as the epoch identifier made of its tag and its first run of digits,
\* and the legacy decoding is not what is returned.
C13_EpochGrammarWinsOverLegacy ==
    (pc = "decoded" /\ unixMatch(slug, asset) /\ legacyMatch(slug, asset))
    => /\ parsed = parseUnix(UnixSlug(slug.asset, slug.tag, slug.year), hourCycle)
       /\ parsed.timeframe = tagTimeframe(slug.tag)
       /\ parsed.timestamp = (slug.year \div 60) * 60
       /\ parsed # parseLegacy(slug, localTZ)

\* btc-updown-15m-2025-11-02-13-30 decoded as 2025 seconds after the epoch,
\* to the minute.
C13_Witness ==
    /\ pc = "decoded"
    /\ asset = "BTC"
    /\ slug = LegacySlug("btc", "15m", 2025, 11, 2, 13, 30)
    /\ parsed = [timeframe |-> "m15", timestamp |-> 33 * 60]

\* C14: an identifier of the daily-text or hourly-text grammar naming month m
\* and day d is given the next year when (m, d) is earlier than today's civil
\* (month, day) and the current year when it is today or later; its decoded
\* start is 00:00 civil on that date (daily-text), the named hour on that date
\* (hourly-text).  Stated for the dates and hours that exist.
C14_TextSlugYearAndStart ==
    (pc = "decoded" /\ (dailyMatch(slug, asset) \/ h1Match(slug, asset))
        /\ monthNum(slug.month) \in 1..12)
    => LET m     == monthNum(slug.month)
           today == Civil(now)
           year  == IF m < today.month \/ (m = today.month /\ slug.day < today.day)
                    THEN today.year + 1 ELSE today.year
           h     == IF slug.g = "daily" THEN 0
                    ELSE IF slug.hour12 = 12 THEN (IF slug.ampm = "am" THEN 0 ELSE 12)
                    ELSE IF slug.ampm = "pm" THEN slug.hour12 + 12 ELSE slug.hour12
           starts == InstantsOfCivil(year, m, slug.day, h, 0)
       IN  (slug.day <= DaysInMonth(year, m) /\ starts # {})
           => /\ parsed.timeframe = (IF slug.g = "daily" THEN "daily" ELSE "h1")
              /\ parsed.timestamp \in starts

\* C15: for every string and every tracked asset parseSlug returns null or a
\* descriptor and never throws; it returns null when the string matches none
\* of the four grammars, and when a daily-text or hourly-text match carries a
\* month name that is not one of the twelve English month names.
C15_ParseSlugIsTotal ==
    pc = "decoded"
    => /\ parsed # rangeError
       /\ (~unixMatch(slug, asset) /\ ~dailyMatch(slug, asset)
             /\ ~h1Match(slug, asset) /\ ~legacyMatch(slug, asset)) => parsed = null
       /\ ((dailyMatch(slug, asset) \/ h1Match(slug, asset))
             /\ ~(\E i \in 1..12 : MONTHS[i] = slug.month)) => parsed = null

\* C16: parseSlug, generateExpectedSlug and isActiveMarket are functions of
\* their explicit arguments alone: two calls with equal arguments return equal
\* results whatever the wall clock at the time of each call.  Here the two
\* calls parseSlug(slug, asset) of two passes made at different times.
C16_EqualArgumentsEqualResults ==
    pc = "revalidated" => reparsed = parsed

\* C17: every descriptor parseSlug returns, for any identifier it accepts,
\* has a start whose civil minute is 0, 15, 30 or 45 for cadence m15, whose
\* civil minute is 0 for h1, and whose civil time of day is 00:00 for daily.
C17_DecodedStartIsAligned ==
    (pc = "decoded" /\ parsed \notin {null, rangeError} /\ parsed.timestamp # InvalidDate)
    => LET c == Civil(parsed.timestamp)
       IN  /\ parsed.timeframe = "m15" => c.minute \in {0, 15, 30, 45}
           /\ parsed.timeframe = "h1" => c.minute = 0
           /\ parsed.timeframe = "daily" => (c.hour = 0 /\ c.minute = 0)

\* C18: for every instant now, of civil hour h in 0..23,
\* generateExpectedSlug(asset, 'h1', now) is the hourly-text identifier naming
\* now's civil month, day and hour in 12-hour form (0 as 12am, 12 as 12pm,
\* h > 12 as (h - 12)pm), and parseSlug of it gives a start of the same civil
\* hour h with minute 0.
C18_HourlyRoundTripKeepsHour ==
    (pc = "parsed" /\ timeframe = "h1")
    => LET c == Civil(now)
       IN  /\ slug = HourlySlug(fullNames(asset), MONTHS[c.month], c.day,
                                IF c.hour = 0 THEN 12
                                ELSE IF c.hour > 12 THEN c.hour - 12 ELSE c.hour,
                                IF c.hour < 12 THEN "am" ELSE "pm")
           /\ parsed.timeframe = "h1"
           /\ parsed.timestamp # InvalidDate
           /\ Civil(parsed.timestamp).hour = c.hour
           /\ Civil(parsed.timestamp).minute = 0

\* C19: for asset BTC, cadence m15 and now = 18:47:00 US Eastern time on
\* 2025-11-02 (the evening of the fall-back date): the offset applied is EST
\* (the predicted identifier carries 18:45 civil plus five hours), the
\* predicted identifier decodes to a start of 18:45 civil, and isActiveMarket
\* is true at now and false at 19:00 civil the same day.
C19_FallBackEveningScenario ==
    (asset = "BTC" /\ timeframe = "m15" /\ now = ScenarioNow)
    => /\ pc \in {"slug", "parsed", "checked", "revalidated"}
            => slug = UnixSlug("btc", "15m", DateUTC(2025, 11, 2, 18, 45) + 5 * Hour)
       /\ pc \in {"parsed", "checked", "revalidated"}
            => /\ parsed.timeframe = "m15"
               /\ parsed.timestamp = DateUTC(2025, 11, 2, 18, 45) + 5 * Hour
       /\ pc \in {"checked", "revalidated"} => (~active.threw /\ active.matches)
       /\ (pc = "revalidated" /\ later = DateUTC(2025, 11, 2, 19, 0) + 5 * Hour)
            => (~activeLater.threw /\ ~activeLater.matches)

\* The scenario carried to the pass made at 19:00 civil.
C19_Witness ==
    /\ asset = "BTC" /\ timeframe = "m15" /\ now = ScenarioNow
    /\ Civil(now) = [year |-> 2025, month |-> 11, day |-> 2, hour |-> 18, minute |-> 47,
                     second |-> 0]
    /\ pc = "revalidated"
    /\ Civil(later) = [year |-> 2025, month |-> 11, day |-> 2, hour |-> 19, minute |-> 0,
                       second |-> 0]
    /\ Civil(parsed.timestamp).hour = 18 /\ Civil(parsed.timestamp).minute = 45
    /\ active.matches
    /\ ~activeLater.matches

\* A slot of a row that carries a quote: one of its four columns is neither ''
\* nor left out.
quoted(q) ==
    \E x \in {q.buy, q.sell, q.spread_up, q.spread_down} : x \notin {empty, unset}

\* The columns q are those step 3 writes from the prices the priceMap pm holds
\* for the two token ids of market m.
writtenFrom(q, pm, m) ==
    /\ {<<m.clobTokenIds[1], "SELL">>, <<m.clobTokenIds[2], "SELL">>} \subseteq DOMAIN pm
    /\ q.buy = toFixed2(pm[<<m.clobTokenIds[1], "SELL">>])
    /\ q.sell = toFixed2(pm[<<m.clobTokenIds[2], "SELL">>])
    /\ q.spread_up =
          IF <<m.clobTokenIds[1], "BUY">> \in DOMAIN pm
          THEN spreadFixed2(pm[<<m.clobTokenIds[1], "SELL">>], pm[<<m.clobTokenIds[1], "BUY">>])
          ELSE empty
    /\ q.spread_down =
          IF <<m.clobTokenIds[2], "BUY">> \in DOMAIN pm
          THEN spreadFixed2(pm[<<m.clobTokenIds[2], "SELL">>], pm[<<m.clobTokenIds[2], "BUY">>])
          ELSE empty

\* C20: in every row that collectData buffers, the quote columns of a
\* timeframe are non-empty only if the market cached for that asset and
\* timeframe, at the moment the row is pushed, is accepted by isActiveMarket at
\* the instant now sampled at the start of that pass, and the prices written
\* are the ones the priceMap of the pass holds for that market's own two token
\* ids; whatever refreshMarkets calls and other collectData calls did in between.
C20_BufferedQuotesAreOfTheActiveMarket ==
    [][\A p \in Passes : \A a \in ASSETS :
          (passes'[p] # passes[p] /\ BUFFERS'[a] # BUFFERS[a])
          => /\ BUFFERS'[a] = Append(BUFFERS[a], BUFFERS'[a][Len(BUFFERS'[a])])
             /\ \A tf \in TIMEFRAMES :
                   quoted(BUFFERS'[a][Len(BUFFERS'[a])].quotes[tf])
                   => /\ MARKETS[a][tf] # noMarket
                      /\ Len(MARKETS[a][tf].clobTokenIds) = 2
                      /\ parseSlug(MARKETS[a][tf].slug, a, clock, hourCycle, localTZ)
                            \notin {null, rangeError}
                      /\ isActiveMarket(parseSlug(MARKETS[a][tf].slug, a, clock, hourCycle,
                                                  localTZ),
                                        a, tf, passes[p].now, hourCycle).matches
                      /\ writtenFrom(BUFFERS'[a][Len(BUFFERS'[a])].quotes[tf],
                                     passes[p].priceMap, MARKETS[a][tf])]_vars

\* A row with a quote is buffered while another collectData call and a
\* refreshMarkets call are under way.
C20_Witness ==
    /\ \E a \in ASSETS : \E k \in DOMAIN BUFFERS[a] : \E tf \in TIMEFRAMES :
          quoted(BUFFERS[a][k].quotes[tf])
    /\ \E p \in Passes : passes[p].pc \in {"spot", "batch", "prices"}
    /\ \E o \in Callers : refreshes[o].pc = "slugs"

\* The refreshMarkets call of caller o returns in this step from its requests
\* by expected slug.
commits(o) == refreshes[o].pc = "slugs" /\ refreshes'[o].pc = "idle"

\* The refreshMarkets call of caller o returns in this step from its catalogue
\* request, the scan not done.
aborts(o) == refreshes[o].pc = "catalogue" /\ refreshes'[o].pc = "idle"

\* C26: after any sequence of refreshMarkets runs, a slot MARKETS[asset][tf]
\* that once held a market never becomes null again: a refresh replaces a slot
\* only with a non-null market whose slug differs from the cached one, and
\* leaves the slot and ACTIVE_BOUGIES unchanged when it finds no market or the
\* same slug for that slot.
C26_FilledSlotStaysFilled ==
    [][/\ \A a \in ASSETS : \A tf \in TIMEFRAMES :
             /\ MARKETS[a][tf] # noMarket => MARKETS'[a][tf] # noMarket
             /\ MARKETS'[a][tf] # MARKETS[a][tf]
                  => /\ MARKETS'[a][tf] # noMarket
                     /\ MARKETS'[a][tf].slug # MARKETS[a][tf].slug
                     /\ ACTIVE_BOUGIES'[a][tf] = MARKETS'[a][tf].timestamp
             /\ MARKETS'[a][tf] = MARKETS[a][tf]
                  => ACTIVE_BOUGIES'[a][tf] = ACTIVE_BOUGIES[a][tf]
       /\ \A o \in Callers :
             commits(o)
             => \E answer \in RefreshAnswers : \A a \in ASSETS : \A tf \in TIMEFRAMES :
                   LET found == answered(refreshes[o], answer)[a][tf]
                   IN  IF found = noMarket \/ found.slug = MARKETS[a][tf].slug
                       THEN MARKETS'[a][tf] = MARKETS[a][tf]
                       ELSE MARKETS'[a][tf] = found]_vars

\* A row holds m15 quotes of a market that a refresh has since replaced by the
\* market of a later window.
C26_Witness ==
    \E a \in ASSETS : \E k \in DOMAIN BUFFERS[a] :
        /\ quoted(BUFFERS[a][k].quotes["m15"])
        /\ MARKETS[a]["m15"] # noMarket
        /\ BUFFERS[a][k].timestamp < MARKETS[a]["m15"].timestamp
        /\ ACTIVE_BOUGIES[a]["m15"] = MARKETS[a]["m15"].timestamp

\* C27: if the catalogue request fails, returns something that is not an
\* array, or an exception is raised while scanning the catalogue,
\* refreshMarkets returns to its caller and leaves MARKETS and ACTIVE_BOUGIES
\* exactly as they were: slots are only updated together at the end of a run
\* that completed the scan.
C27_FailedScanChangesNothing ==
    [][/\ \A o \in Callers :
             aborts(o)
             => /\ MARKETS' = MARKETS
                /\ ACTIVE_BOUGIES' = ACTIVE_BOUGIES
                /\ IF o = 0 THEN main'.pc \in {"sleep", "running"}
                   ELSE passes'[o].pc = "done"
       /\ (MARKETS' # MARKETS \/ ACTIVE_BOUGIES' # ACTIVE_BOUGIES)
             => \E o \in Callers : commits(o)]_vars

\* A collectData call has ended although the m15 market it found expired is
\* still the cached one: its refreshMarkets call brought nothing.
C27_Witness ==
    \E p \in Passes : \E a \in ASSETS :
        /\ passes[p].pc = "done"
        /\ refreshes[p].pc = "idle"
        /\ hasTokens(MARKETS[a]["m15"])
        /\ MARKETS[a]["m15"].timestamp + Duration("m15") <= clock
        /\ BUFFERS[a] # <<>>
        /\ BUFFERS[a][Len(BUFFERS[a])].timestamp = clock

\* C28: rows in each asset's buffer are in non-decreasing timestamp order
\* under any interleaving of the 1-second collectData ticks, including ticks
\* that start while an earlier pass is still awaiting network replies.
C28_BufferInTimestampOrder ==
    \A a \in ASSETS : \A j \in DOMAIN BUFFERS[a] : \A k \in DOMAIN BUFFERS[a] :
        j < k => BUFFERS[a][j].timestamp <= BUFFERS[a][k].timestamp

\* C30: the startup loop of main terminates: after the initial refreshMarkets
\* it calls refreshMarkets at most 5 more times, goes on only while some slot
\* lacks its two token ids, and then starts the timers for good, whether or not
\* all slots were filled.
C30_StartupLoopTerminates ==
    /\ <>(main.pc = "running")
    /\ [](main.tries <= MaxTries)
    /\ [](main.pc \in {"sleep", "retry"} => (~needAll(MARKETS) /\ main.tries < MaxTries))
    /\ [][main.pc = "running" => main'.pc = "running"]_vars
    /\ [][(main.pc # "running" /\ main'.pc = "running")
            => (needAll(MARKETS') \/ (main.pc = "retry" /\ main.tries + 1 = MaxTries))]_vars

\* The timers run after retries that left slots without token ids: the first
\* slot has them, the last one has not.
C30_Witness ==
    /\ main.pc = "running"
    /\ hasTokens(MARKETS["BTC"]["m15"])
    /\ ~hasTokens(MARKETS["SOL"]["daily"])
    /\ refreshes[0].pc = "idle"

\* The collectData call p ends in this step without having called
\* refreshMarkets.
endsWithoutRefresh(p) ==
    passes[p].pc \in {"spot", "prices"} /\ passes'[p].pc = "done"

\* C21: if some market cached with two token ids for a tracked asset and
\* timeframe is not active at the instant a collectData pass sampled as now,
\* then refreshMarkets is invoked before that pass completes: no pass ends
\* without calling refreshMarkets while such a market is cached.
C21_StaleMarketTriggersRefresh ==
    [][\A p \in Passes :
          endsWithoutRefresh(p)
          => \A a \in ASSETS : \A tf \in TIMEFRAMES :
                hasTokens(MARKETS[a][tf])
                => isActiveMarket(parseSlug(MARKETS[a][tf].slug, a, clock, hourCycle, localTZ),
                                  a, tf, passes[p].now, hourCycle).matches]_vars

\* C29: once the timers are running, if a tracked asset/timeframe slot holds
\* no market, or a market without two token ids, then refreshMarkets is
\* eventually invoked again.
C29_EmptySlotLeadsToRefresh ==
    (/\ main.pc = "running"
     /\ \E a \in ASSETS : \E tf \in TIMEFRAMES : ~hasTokens(MARKETS[a][tf]))
    ~> (\E o \in Callers : refreshes[o].pc = "catalogue")

\* The lines of a file without its header.
written(file) == IF file = <<>> THEN <<>> ELSE Tail(file)

\* Every line an asset has had so far: the written ones, then the buffered.
ledger(file, buffer) == written(file) \o csvLines(buffer)

\* C23: a flushToCSV call appends every buffered row of an asset to its CSV in
\* buffer order and leaves the buffer empty, and under any interleaving with
\* collectData passes every row is written exactly once: the written lines
\* followed by the buffered ones only ever grow by one new row at the end.
C23_EveryRowWrittenOnce ==
    [][\A a \in ASSETS :
          /\ \/ ledger(CSV'[a], BUFFERS'[a]) = ledger(CSV[a], BUFFERS[a])
             \/ /\ BUFFERS'[a] # <<>>
                /\ CSV'[a] = CSV[a]
                /\ ledger(CSV'[a], BUFFERS'[a])
                     = Append(ledger(CSV[a], BUFFERS[a]), csvLine(BUFFERS'[a][Len(BUFFERS'[a])]))
                /\ SubSeq(BUFFERS'[a], 1, Len(BUFFERS[a])) = BUFFERS[a]
                /\ Len(BUFFERS'[a]) = Len(BUFFERS[a]) + 1
          /\ CSV'[a] # CSV[a] =>
                /\ BUFFERS[a] # <<>>
                /\ BUFFERS'[a] = <<>>
                /\ written(CSV'[a]) = written(CSV[a]) \o csvLines(BUFFERS[a])
          /\ CSV'[a] # <<>> => CSV'[a][1] = headerLine]_vars

\* A flush has written rows of BTC, a pass started before it has buffered
\* another row since, and a pass is still in flight.
C23_Witness ==
    /\ Len(CSV["BTC"]) >= 2
    /\ BUFFERS["BTC"] # <<>>
    /\ \E p \in Passes : passes[p].pc # "idle"

\* Pass p of the earlier logger ends its step 3 in this step.
finishing(p) ==
    /\ passes[p].pc \in {"spot", "prices"}
    /\ passes'[p].pc \in {"done", "refresh"}

\* Pass p holds the priceMap and, for the slot, an active market with the two
\* prices the quote columns are made of.
validQuote(p, a, tf) ==
    /\ passes[p].pc = "prices"
    /\ passes[p].rows[a] # noRow
    /\ hasTokens(MARKETS[a][tf])
    /\ verdict(parseSlugScrapper(MARKETS[a][tf].slug, a, clock, localTZ),
               a, tf, passes[p].now, hourCycle) = "active"
    /\ <<MARKETS[a][tf].clobTokenIds[1], "BUY">> \in DOMAIN passes[p].priceMap
    /\ <<MARKETS[a][tf].clobTokenIds[2], "SELL">> \in DOMAIN passes[p].priceMap

\* C24: the earlier logger buffers a row for an asset only if at least one
\* of m15, h1, daily yielded valid quotes from an active market in that pass,
\* and the row carries them; a pass with a spot price but no valid quote for
\* any timeframe buffers nothing for the asset.
C24_RowOnlyWithValidQuotes ==
    [][\A a \in AssetsScrapper :
          /\ (BUFFERS'[a] # BUFFERS[a] /\ CSV'[a] # CSV[a]) =>
                /\ BUFFERS'[a] = <<>>
                /\ passes' = passes
          /\ (BUFFERS'[a] # BUFFERS[a] /\ CSV'[a] = CSV[a]) =>
                /\ Len(BUFFERS'[a]) = Len(BUFFERS[a]) + 1
                /\ SubSeq(BUFFERS'[a], 1, Len(BUFFERS[a])) = BUFFERS[a]
                /\ \E p \in PassesScrapper, tf \in TIMEFRAMES :
                      /\ finishing(p)
                      /\ validQuote(p, a, tf)
                      /\ BUFFERS'[a][Len(BUFFERS'[a])].timestamp = passes[p].now
                      /\ BUFFERS'[a][Len(BUFFERS'[a])].quotes[tf].buy \notin {empty, unset}
                      /\ BUFFERS'[a][Len(BUFFERS'[a])].quotes[tf].sell \notin {empty, unset}
          /\ \A p \in PassesScrapper :
                (finishing(p) /\ \A tf \in TIMEFRAMES : ~validQuote(p, a, tf))
                   => BUFFERS'[a] = BUFFERS[a]]_vars

\* A pass has run to its end with a spot price for every asset: it buffered a
\* row of BTC with its quotes, and nothing for ETH, no market of which was
\* served.
C24_Witness ==
    /\ spotFailures = 0
    /\ \A p \in PassesScrapper : passes[p].pc = "done"
    /\ Len(BUFFERS["BTC"]) = 1
    /\ \E tf \in TIMEFRAMES : BUFFERS["BTC"][1].quotes[tf].buy \notin {empty, unset}
    /\ \A tf \in TIMEFRAMES : ~hasTokens(MARKETS["ETH"][tf])
    /\ BUFFERS["ETH"] = <<>>
    /\ CSV["ETH"] = <<>>

\* C25: in the earlier logger, whenever the quote columns of a timeframe are
\* filled, <tf>_buy holds the SELL-side price of the Up token and <tf>_sell
\* the SELL-side price of the Down token, and they are filled exactly when
\* both of those two prices are available.
C25_BuyColumnIsUpSell ==
    [][\A a \in AssetsScrapper : \A p \in PassesScrapper :
          (finishing(p) /\ BUFFERS'[a] # BUFFERS[a]) =>
             \A tf \in TIMEFRAMES :
                IF /\ passes[p].pc = "prices"
                   /\ hasTokens(MARKETS[a][tf])
                   /\ verdict(parseSlugScrapper(MARKETS[a][tf].slug, a, clock, localTZ),
                              a, tf, passes[p].now, hourCycle) = "active"
                   /\ <<MARKETS[a][tf].clobTokenIds[1], "SELL">> \in DOMAIN passes[p].priceMap
                   /\ <<MARKETS[a][tf].clobTokenIds[2], "SELL">> \in DOMAIN passes[p].priceMap
                THEN /\ BUFFERS'[a][Len(BUFFERS'[a])].quotes[tf].buy
                          = toFixed2(passes[p].priceMap[<<MARKETS[a][tf].clobTokenIds[1], "SELL">>])
                     /\ BUFFERS'[a][Len(BUFFERS'[a])].quotes[tf].sell
                          = toFixed2(passes[p].priceMap[<<MARKETS[a][tf].clobTokenIds[2], "SELL">>])
                ELSE /\ BUFFERS'[a][Len(BUFFERS'[a])].quotes[tf].buy \in {empty, unset}
                     /\ BUFFERS'[a][Len(BUFFERS'[a])].quotes[tf].sell \in {empty, unset}]_vars

\* C22: in the earlier logger, once logging has started refreshMarkets is
\* invoked again on a fixed period whatever the cached markets are: in every
\* infinite run refreshMarkets is invoked infinitely often.
C22_RefreshRunsInfinitelyOften ==
    []<>(\E o \in CallersScrapper : refreshes[o].pc = "catalogue")

====
